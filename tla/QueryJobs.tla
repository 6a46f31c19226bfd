------------------------------ MODULE QueryJobs ------------------------------
(***************************************************************************)
(* The life of the jobs that execute ONE query text on ONE data source:    *)
(* web processes and the scheduler call enqueue_query                      *)
(* (redash/tasks/queries/execution.py), which deduplicates through the     *)
(* Redis key query_hash_job:<ds>:<hash>; RQ workers (redash/tasks/worker.py)*)
(* fork a work horse that runs execute_query; users cancel jobs.  All the  *)
(* state of different (data source, hash) pairs is disjoint, so one pair   *)
(* is modelled.                                                            *)
(*                                                                         *)
(* Each action is one Redis command, one RQ call, one commit or one signal:*)
(* the steps between which other processes run.  RQ has one list per queue *)
(* and workers read several lists, so "waiting" is a set: any waiting job  *)
(* may be the next.                                                        *)
(***************************************************************************)
EXTENDS Naturals, FiniteSets

CONSTANTS Callers,   \* processes that call enqueue_query
          Jobs,      \* job ids; uuid4 in RQ, so never used twice
          Workers,   \* RQ workers, each with at most one work horse
          MaxTries,  \* the bound of the retry loop, 5 in the code
          NoJob,     \* an absent key, a Python None
          Events     \* which events of the environment happen

ASSUME ConstantsAssumption ==
  /\ NoJob \notin Jobs
  /\ MaxTries \in Nat \ {0}
  /\ Events \subseteq {"LockExpiry", "JobExpiry", "Cancel", "Timeout", "HorseKill", "WorkerDeath"}

VARIABLES
  lock,      \* Redis: value of the lock key
  status,    \* Redis: status field of each job's hash, "absent" when there is no hash
  waiting,   \* Redis: the jobs in the lists of the queues
  marked,    \* Redis: the jobs whose meta has cancelled = True
  created,   \* every job ever enqueued (history)
  watch,     \* per caller: its pipeline watches nothing, an untouched or a touched key
  cpc,       \* per caller: the next step of enqueue_query
  tries,     \* per caller: try_count
  job,       \* per caller: the local variable job
  found,     \* per caller: the local variable job_id
  canceller, \* per job: how far its cancel() call is
  wpc,       \* per worker: the next step of its work horse
  wjob,      \* per worker: the job it executes
  outcome,   \* per job: what run_query gave
  results,   \* Postgres: the jobs whose query_results row is committed
  latest,    \* Postgres: the job whose result is latest_query_data of the queries
  checks     \* the jobs for whose result check_alerts_for_query is enqueued

redis   == <<lock, status, waiting, marked, created>>
callers == <<watch, cpc, tries, job, found>>
workers == <<wpc, wjob, outcome>>
db      == <<results, latest, checks>>
vars    == <<redis, callers, canceller, workers, db>>

Statuses == {"absent", "queued", "started", "finished", "failed"}
Complete == {"finished", "failed"}

RedisTypeOK ==
  /\ lock \in Jobs \cup {NoJob}
  /\ status \in [Jobs -> Statuses]
  /\ waiting \subseteq Jobs
  /\ marked \subseteq Jobs
  /\ created \subseteq Jobs

CallersTypeOK ==
  /\ watch \in [Callers -> {"none", "clean", "dirty"}]
  /\ cpc \in [Callers -> {"idle", "watch", "get", "fetch", "status", "drop", "create", "exec", "done"}]
  /\ tries \in [Callers -> 0..MaxTries]
  /\ job \in [Callers -> Jobs \cup {NoJob}]
  /\ found \in [Callers -> Jobs \cup {NoJob}]

WorkersTypeOK ==
  /\ canceller \in [Jobs -> {"idle", "sawStarted", "sawOther", "done"}]
  /\ wpc \in [Workers -> {"idle", "forked", "prepare", "running", "ran", "failedQuery",
                          "unlocked", "committed", "returned", "failing"}]
  /\ wjob \in [Workers -> Jobs \cup {NoJob}]
  /\ outcome \in [Jobs -> {"none", "data", "error"}]

DbTypeOK ==
  /\ results \subseteq Jobs
  /\ latest \in Jobs \cup {NoJob}
  /\ checks \subseteq Jobs

TypeOK == RedisTypeOK /\ CallersTypeOK /\ WorkersTypeOK /\ DbTypeOK

Init ==
  /\ lock = NoJob
  /\ status = [j \in Jobs |-> "absent"]
  /\ waiting = {} /\ marked = {} /\ created = {}
  /\ watch = [c \in Callers |-> "none"]
  /\ cpc = [c \in Callers |-> "idle"]
  /\ tries = [c \in Callers |-> 0]
  /\ job = [c \in Callers |-> NoJob]
  /\ found = [c \in Callers |-> NoJob]
  /\ canceller = [j \in Jobs |-> "idle"]
  /\ wpc = [w \in Workers |-> "idle"]
  /\ wjob = [w \in Workers |-> NoJob]
  /\ outcome = [j \in Jobs |-> "none"]
  /\ results = {} /\ latest = NoJob /\ checks = {}

(***************************************************************************)
(* The lock key and WATCH.  A write to the key touches every pipeline that *)
(* watches it; DEL of an absent key writes nothing.                        *)
(***************************************************************************)
Touched == [c \in Callers |-> IF watch[c] = "clean" THEN "dirty" ELSE watch[c]]

DeleteLock ==
  /\ lock' = NoJob
  /\ watch' = IF lock = NoJob THEN watch ELSE Touched

(***************************************************************************)
(* enqueue_query.                                                          *)
(***************************************************************************)
Goto(c, pc) == cpc' = [cpc EXCEPT ![c] = pc]

\* Another call starts; a caller makes one call at a time.
Call(c) ==
  /\ cpc[c] \in {"idle", "done"}
  /\ created # Jobs                    \* the bound on job ids
  /\ Goto(c, "watch")
  /\ tries' = [tries EXCEPT ![c] = 0]
  /\ job' = [job EXCEPT ![c] = NoJob]
  /\ UNCHANGED <<redis, watch, found, canceller, workers, db>>

Watch(c) ==
  /\ cpc[c] = "watch"
  /\ Goto(c, "get")
  /\ tries' = [tries EXCEPT ![c] = @ + 1]
  /\ watch' = [watch EXCEPT ![c] = "clean"]
  /\ UNCHANGED <<redis, job, found, canceller, workers, db>>

\* Leaving the loop: the pipeline is dropped, and with it the WATCH.
Break(c) ==
  /\ Goto(c, "done")
  /\ watch' = [watch EXCEPT ![c] = "none"]

\* pipe.get.  With no lock, a job left from an earlier iteration is returned.
Get(c) ==
  /\ cpc[c] = "get"
  /\ found' = [found EXCEPT ![c] = lock]
  /\ \/ lock # NoJob /\ Goto(c, "fetch") /\ UNCHANGED watch
     \/ lock = NoJob /\ job[c] = NoJob /\ Goto(c, "create") /\ UNCHANGED watch
     \/ lock = NoJob /\ job[c] # NoJob /\ Break(c)
  /\ UNCHANGED <<redis, tries, job, canceller, workers, db>>

\* Mutant: the job that is found is not kept.
FetchForgets(c) ==
  /\ cpc[c] = "fetch"
  /\ Goto(c, IF status[found[c]] = "absent" THEN "drop" ELSE "status")
  /\ UNCHANGED <<redis, watch, tries, job, found, canceller, workers, db>>

\* Job.fetch raises NoSuchJobError when the hash is gone.
Fetch(c) ==
  /\ cpc[c] = "fetch"
  /\ IF status[found[c]] = "absent"
       THEN Goto(c, "drop") /\ UNCHANGED job
       ELSE Goto(c, "status") /\ job' = [job EXCEPT ![c] = found[c]]
  /\ UNCHANGED <<redis, watch, tries, found, canceller, workers, db>>

\* Mutant: a failed job is not taken for complete.
GetStatusKeepsFailed(c) ==
  /\ cpc[c] = "status"
  /\ IF status[found[c]] = "finished"
       THEN Goto(c, "drop") /\ UNCHANGED watch
       ELSE Break(c)
  /\ UNCHANGED <<redis, tries, job, found, canceller, workers, db>>

\* get_status reads Redis again: a hash that expired meanwhile has no status, which is not complete.
GetStatus(c) ==
  /\ cpc[c] = "status"
  /\ IF status[found[c]] \in Complete
       THEN Goto(c, "drop") /\ UNCHANGED watch
       ELSE Break(c)
  /\ UNCHANGED <<redis, tries, job, found, canceller, workers, db>>

\* The lock is deleted on another connection than the one that watches it.
Drop(c) ==
  /\ cpc[c] = "drop"
  /\ DeleteLock
  /\ job' = [job EXCEPT ![c] = NoJob]
  /\ Goto(c, "create")
  /\ UNCHANGED <<status, waiting, marked, created, tries, found, canceller, workers, db>>

\* queue.enqueue takes effect at once: only the SET is queued in the transaction.
Create(c) ==
  /\ cpc[c] = "create"
  /\ \E j \in Jobs \ created :
       /\ created' = created \cup {j}
       /\ status' = [status EXCEPT ![j] = "queued"]
       /\ waiting' = waiting \cup {j}
       /\ job' = [job EXCEPT ![c] = j]
  /\ Goto(c, "exec")
  /\ UNCHANGED <<lock, marked, watch, tries, found, canceller, workers, db>>

\* Mutant: SET without WATCH.
ExecUnwatched(c) ==
  /\ cpc[c] = "exec"
  /\ lock' = job[c]
  /\ watch' = [Touched EXCEPT ![c] = "none"]
  /\ Goto(c, "done")
  /\ UNCHANGED <<status, waiting, marked, created, tries, job, found, canceller, workers, db>>

\* Mutant: a failed transaction counts as another try.
ExecCountsTwice(c) ==
  /\ cpc[c] = "exec"
  /\ watch' = [Touched EXCEPT ![c] = "none"]
  /\ \/ watch[c] = "clean" /\ lock' = job[c] /\ Goto(c, "done") /\ UNCHANGED tries
     \/ /\ watch[c] = "dirty"
        /\ Goto(c, IF tries[c] < MaxTries THEN "watch" ELSE "done")
        /\ tries' = [tries EXCEPT ![c] = @ + 1]
        /\ UNCHANGED lock
  /\ UNCHANGED <<status, waiting, marked, created, job, found, canceller, workers, db>>

\* Mutant: a failed transaction is executed again as it is.
ExecInsists(c) ==
  /\ cpc[c] = "exec" /\ watch[c] = "clean"
  /\ lock' = job[c]
  /\ watch' = [Touched EXCEPT ![c] = "none"]
  /\ Goto(c, "done")
  /\ UNCHANGED <<status, waiting, marked, created, tries, job, found, canceller, workers, db>>

\* pipe.execute raises WatchError when the key was touched.
Exec(c) ==
  /\ cpc[c] = "exec"
  /\ \/ /\ watch[c] = "clean"
        /\ lock' = job[c]
        /\ watch' = [Touched EXCEPT ![c] = "none"]
        /\ Goto(c, "done")
     \/ /\ watch[c] = "dirty" /\ tries[c] < MaxTries
        /\ watch' = [watch EXCEPT ![c] = "none"]
        /\ Goto(c, "watch")
        /\ UNCHANGED lock
     \/ /\ watch[c] = "dirty" /\ tries[c] = MaxTries
        /\ Break(c)
        /\ UNCHANGED lock
  /\ UNCHANGED <<status, waiting, marked, created, tries, job, found, canceller, workers, db>>

EnqueueStep(c) ==
  Watch(c) \/ Get(c) \/ Fetch(c) \/ GetStatus(c) \/ Drop(c) \/ Create(c) \/ Exec(c)

(***************************************************************************)
(* CancellableJob.cancel, called by JobResource.delete: is_started reads   *)
(* the status, then meta is saved and the id is removed from its list.     *)
(* The status is never changed.  At most one call per job (a bound).       *)
(***************************************************************************)
CancelRead(j) ==
  /\ "Cancel" \in Events
  /\ canceller[j] = "idle" /\ status[j] # "absent"
  /\ canceller' = [canceller EXCEPT ![j] = IF status[j] = "started" THEN "sawStarted" ELSE "sawOther"]
  /\ UNCHANGED <<redis, callers, workers, db>>

CancelWrite(j) ==
  /\ canceller[j] \in {"sawStarted", "sawOther"}
  /\ marked' = IF canceller[j] = "sawStarted" THEN marked \cup {j} ELSE marked
  /\ waiting' = waiting \ {j}
  /\ canceller' = [canceller EXCEPT ![j] = "done"]
  /\ UNCHANGED <<lock, status, created, callers, workers, db>>

(***************************************************************************)
(* A worker takes a job and forks its work horse; the horse runs           *)
(* execute_query.                                                          *)
(***************************************************************************)
WGoto(w, pc) == wpc' = [wpc EXCEPT ![w] = pc]

\* Mutant: the job is read without being taken out of its list.
DequeuePeeks(w, j) ==
  /\ wpc[w] = "idle" /\ j \in waiting
  /\ wjob' = [wjob EXCEPT ![w] = j]
  /\ WGoto(w, "forked")
  /\ UNCHANGED <<redis, callers, canceller, outcome, db>>

Dequeue(w, j) ==
  /\ wpc[w] = "idle" /\ j \in waiting
  /\ waiting' = waiting \ {j}
  /\ wjob' = [wjob EXCEPT ![w] = j]
  /\ WGoto(w, "forked")
  /\ UNCHANGED <<lock, status, marked, created, callers, canceller, outcome, db>>

\* RQ's prepare_job_execution, then QueryExecutor.__init__.
Start(w) ==
  /\ wpc[w] = "forked"
  /\ status' = [status EXCEPT ![wjob[w]] = "started"]
  /\ WGoto(w, "prepare")
  /\ UNCHANGED <<lock, waiting, marked, created, callers, canceller, wjob, outcome, db>>

\* run() installs the SIGINT handler and calls run_query.
Run(w) ==
  /\ wpc[w] = "prepare"
  /\ WGoto(w, "running")
  /\ UNCHANGED <<redis, callers, canceller, wjob, outcome, db>>

RunQuery(w) ==
  /\ wpc[w] = "running"
  /\ \E o \in {"data", "error"} : outcome' = [outcome EXCEPT ![wjob[w]] = o]
  /\ WGoto(w, "ran")
  /\ UNCHANGED <<redis, callers, canceller, wjob, db>>

\* Mutant: a failed query is stored like a successful one.
UnlockIgnoresError(w) ==
  /\ wpc[w] = "ran"
  /\ DeleteLock
  /\ WGoto(w, "unlocked")
  /\ UNCHANGED <<status, waiting, marked, created, cpc, tries, job, found, canceller, wjob, outcome, db>>

\* _unlock: whatever job the key names.
Unlock(w) ==
  /\ wpc[w] = "ran"
  /\ DeleteLock
  /\ WGoto(w, IF outcome[wjob[w]] = "error" THEN "failedQuery" ELSE "unlocked")
  /\ UNCHANGED <<status, waiting, marked, created, cpc, tries, job, found, canceller, wjob, outcome, db>>

\* QueryExecutionError: execute_query rolls back and returns the exception.
QueryFailed(w) ==
  /\ wpc[w] = "failedQuery"
  /\ WGoto(w, "returned")
  /\ UNCHANGED <<redis, callers, canceller, wjob, outcome, db>>

\* store_result, update_latest_result and the commit that makes both visible.
Commit(w) ==
  /\ wpc[w] = "unlocked"
  /\ results' = results \cup {wjob[w]}
  /\ latest' = wjob[w]
  /\ WGoto(w, "committed")
  /\ UNCHANGED <<redis, callers, canceller, wjob, outcome, checks>>

\* Mutant: the loop over the queries starts the transaction again.
CheckAlertsRepeats(w) ==
  /\ wpc[w] = "committed"
  /\ checks' = checks \cup {wjob[w]}
  /\ WGoto(w, "unlocked")
  /\ UNCHANGED <<redis, callers, canceller, wjob, outcome, results, latest>>

CheckAlerts(w) ==
  /\ wpc[w] = "committed"
  /\ checks' = checks \cup {wjob[w]}
  /\ WGoto(w, "returned")
  /\ UNCHANGED <<redis, callers, canceller, wjob, outcome, results, latest>>

\* The horse is done with its job, whose status becomes s.
Leave(w, s) ==
  /\ status' = [status EXCEPT ![wjob[w]] = s]
  /\ WGoto(w, "idle")
  /\ wjob' = [wjob EXCEPT ![w] = NoJob]
  /\ UNCHANGED <<lock, waiting, marked, created, callers, canceller, outcome, db>>

\* RQ's handle_job_success; a returned exception is a result like any other.
Finish(w) == wpc[w] = "returned" /\ Leave(w, "finished")

\* Mutant: a job that had not started keeps its status when its horse dies.
FailOnlyStarted(w) ==
  /\ wpc[w] = "failing"
  /\ Leave(w, IF status[wjob[w]] = "started" THEN "failed" ELSE status[wjob[w]])

\* RQ's handle_job_failure, by the horse for an exception and by the worker for a dead horse.
Fail(w) == wpc[w] = "failing" /\ Leave(w, "failed")

\* An exception from a signal: caught around run_query, else it leaves execute_query.
RaiseIn(w, uncaught) ==
  /\ \/ /\ wpc[w] = "running"
        /\ outcome' = [outcome EXCEPT ![wjob[w]] = "error"]
        /\ WGoto(w, "ran")
     \/ /\ wpc[w] \in uncaught
        /\ WGoto(w, "failing")
        /\ UNCHANGED outcome
  /\ UNCHANGED <<redis, callers, canceller, wjob, db>>

InRun == {"running", "ran", "failedQuery", "unlocked", "committed"}

\* monitor_work_horse sees meta.cancelled and sends SIGINT, which RQ's horse ignores until run()
\* and turns into a failure until the job's status is written.
Interrupt(w) == wjob[w] \in marked /\ RaiseIn(w, InRun \cup {"returned"})

\* The job's time limit, enforced by the alarm in the work horse while it performs the job.
SoftLimit(w) == "Timeout" \in Events /\ RaiseIn(w, InRun \cup {"prepare"})

Busy == {"forked", "prepare", "running", "ran", "failedQuery", "unlocked", "committed", "returned"}

Killed(w) ==
  /\ wpc[w] \in Busy
  /\ WGoto(w, "failing")
  /\ UNCHANGED <<redis, callers, canceller, wjob, outcome, db>>

\* Mutant: the monitor trusts the alarm while the query runs.
HardLimitSparesQuery(w) == "Timeout" \in Events /\ wpc[w] # "running" /\ Killed(w)

\* enforce_hard_limit kills a horse that ignored the alarm, at any point.
HardLimit(w) == "Timeout" \in Events /\ Killed(w)

\* The horse dies of something else (out of memory, a segmentation fault of a driver).
HorseDies(w) == "HorseKill" \in Events /\ Killed(w)

WorkerStep(w) ==
  \/ \E j \in Jobs : Dequeue(w, j)
  \/ Start(w) \/ Run(w) \/ RunQuery(w) \/ Unlock(w) \/ QueryFailed(w) \/ Commit(w)
  \/ CheckAlerts(w) \/ Finish(w) \/ Fail(w)

(***************************************************************************)
(* The environment.                                                        *)
(***************************************************************************)
\* The worker and its horse die with their host; a new worker takes its place.
WorkerDies(w) ==
  /\ "WorkerDeath" \in Events /\ wpc[w] # "idle"
  /\ WGoto(w, "idle")
  /\ wjob' = [wjob EXCEPT ![w] = NoJob]
  /\ UNCHANGED <<redis, callers, canceller, outcome, db>>

\* RQ's StartedJobRegistry fails a job that outlived its time limit (with no limit it never does).
RegistryCleanup(j) ==
  /\ "Timeout" \in Events /\ status[j] = "started" /\ \A w \in Workers : wjob[w] # j
  /\ status' = [status EXCEPT ![j] = "failed"]
  /\ UNCHANGED <<lock, waiting, marked, created, callers, canceller, workers, db>>

\* JOB_EXPIRY_TIME after the SET.  Whether an expiry aborts EXEC depends on the Redis version.
LockExpires ==
  /\ "LockExpiry" \in Events /\ lock # NoJob
  /\ lock' = NoJob
  /\ watch' \in {watch, Touched}
  /\ UNCHANGED <<status, waiting, marked, created, cpc, tries, job, found, canceller, workers, db>>

\* result_ttl, failure_ttl and purge_failed_jobs: only complete jobs are ever removed.
JobExpires(j) ==
  /\ "JobExpiry" \in Events /\ status[j] \in Complete
  /\ status' = [status EXCEPT ![j] = "absent"]
  /\ UNCHANGED <<lock, waiting, marked, created, callers, canceller, workers, db>>

Next ==
  \/ \E c \in Callers : Call(c) \/ EnqueueStep(c)
  \/ \E j \in Jobs : CancelRead(j) \/ CancelWrite(j) \/ JobExpires(j) \/ RegistryCleanup(j)
  \/ \E w \in Workers : \/ WorkerStep(w)
                        \/ Interrupt(w) \/ SoftLimit(w) \/ HardLimit(w)
                        \/ HorseDies(w) \/ WorkerDies(w)
  \/ LockExpires

Spec == Init /\ [][Next]_vars

(***************************************************************************)
(* Fairness.  A web process finishes its request.  The list of a queue is  *)
(* FIFO, so a waiting job is not overtaken for ever.  A horse executes its *)
(* code, except that run_query may block for ever (the driver of a data    *)
(* source); then only the monitor of its parent ends it.                   *)
(***************************************************************************)
HorseStep(w) ==
  Start(w) \/ Run(w) \/ Unlock(w) \/ QueryFailed(w) \/ Commit(w) \/ CheckAlerts(w) \/ Finish(w) \/ Fail(w)

Fairness ==
  /\ \A c \in Callers : WF_vars(EnqueueStep(c))
  /\ \A j \in Jobs : SF_vars(\E w \in Workers : Dequeue(w, j))
  /\ \A w \in Workers : WF_vars(HorseStep(w)) /\ WF_vars(wpc[w] = "running" /\ HardLimit(w))

FairSpec == Spec /\ Fairness

(***************************************************************************)
(* Properties.                                                             *)
(***************************************************************************)
Held(j) == \E w \in Workers : wjob[w] = j

\* enqueue_query always returns a job that exists in RQ: the "Failed adding job" branch after its
\* loop is dead code whatever the other callers, the workers and the expiries do.
CallerGetsAJob == \A c \in Callers : cpc[c] = "done" => job[c] \in created

\* Every job that is not complete is in a queue or on a worker, unless a user cancelled it while it
\* was not running or its worker died: no path of kill, timeout or interrupt loses a job.
NoJobLost ==
  \A j \in Jobs : status[j] \in {"queued", "started"} =>
    \/ j \in waiting \/ Held(j)
    \/ canceller[j] = "done"
    \/ "WorkerDeath" \in Events

\* A job is executed by one worker at a time and is then in no queue.
OneWorkerPerJob ==
  /\ \A v, w \in Workers : wjob[v] = wjob[w] /\ wjob[v] # NoJob => v = w
  /\ \A w \in Workers : wjob[w] \notin waiting

\* The result that a finished job announces is visible to whoever reads it, an error never
\* replaces a result, and an alert is checked only against a committed result.
ResultsAreCommitted ==
  /\ \A j \in Jobs : status[j] = "finished" /\ outcome[j] = "data" => j \in results
  /\ \A j \in results : outcome[j] = "data"
  /\ checks \subseteq results
  /\ latest # NoJob => latest \in results

\* The lock never passes from one job to another: it is removed first, and a caller whose view
\* of the key is out of date does not overwrite the lock of a faster one.
NoTakeover == [][lock # NoJob /\ lock' # lock => lock' = NoJob]_vars

\* At most one job that has yet to run the query (what test_multiple_enqueue_of_same_query asserts).
OneJobPerQuery ==
  Cardinality({j \in Jobs : \/ j \in waiting
                            \/ \E w \in Workers : wjob[w] = j /\ wpc[w] \in {"forked", "prepare", "running"}}) <= 1

\* Locks, signals and crashes set aside, a job is what JobLifecycle says: executed at most once, its
\* result published at most once and only by its execution.
Phase(j) ==
  IF j \notin created THEN "new"
  ELSE IF j \in waiting THEN "pending"
  ELSE IF Held(j) THEN "running" ELSE "over"

Lifecycle == INSTANCE JobLifecycle WITH phase <- [j \in Jobs |-> Phase(j)], published <- results

ImplementsLifecycle == Lifecycle!Spec

\* Every call of enqueue_query returns, whatever jobs it finds and however often its transaction fails
\* (or stands where it would create one more job than the model has ids for).
CallsReturn ==
  \A c \in Callers : cpc[c] = "watch" ~> (cpc[c] = "done" \/ (cpc[c] = "create" /\ created = Jobs))

\* With a time limit no job keeps a worker for ever, even if its query never returns.
WorkersNotStuck == \A w \in Workers : wpc[w] # "idle" ~> wpc[w] = "idle"

\* With a time limit every waiting job is completed or taken out by its user.
JobsComplete ==
  \A j \in Jobs : j \in waiting ~> (status[j] \in Complete \cup {"absent"} \/ canceller[j] = "done")

\* A lock left by a complete job does not survive the next enqueue_query.
StaleLockGoes ==
  \A j \in Jobs :
    (lock = j /\ status[j] \in Complete /\ \E c \in Callers : cpc[c] = "watch") ~> lock # j

==============================================================================
