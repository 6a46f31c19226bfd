-------------------------- MODULE QueryJobsProofs --------------------------
(***************************************************************************)
(* Proofs about QueryJobs, for any number of callers, jobs, workers and    *)
(* tries and for every combination of events.                              *)
(***************************************************************************)
EXTENDS QueryJobs, TLAPS

\* A caller about to start an iteration has one left.
TriesLeft == \A c \in Callers : cpc[c] = "watch" => tries[c] < MaxTries

\* Exactly the workers that are not idle have a job.
BusyHasJob == \A w \in Workers : wpc[w] = "idle" <=> wjob[w] = NoJob

TypeInv == TypeOK /\ TriesLeft /\ BusyHasJob

\* No step of enqueue_query, of a worker or of the environment leaves the types, and no call
\* makes more than MaxTries tries (execution.py, while try_count < 5).
THEOREM TypeCorrect == Spec => []TypeInv /\ []TypeOK
<1> USE ConstantsAssumption
<1>1. Init => TypeInv
  BY DEF Init, TypeInv, TypeOK, TriesLeft, BusyHasJob, Statuses, RedisTypeOK, CallersTypeOK, WorkersTypeOK, DbTypeOK
<1>2. TypeInv /\ [Next]_vars => TypeInv'
  <2> SUFFICES ASSUME TypeInv, [Next]_vars PROVE TypeInv'
    OBVIOUS
  <2> USE DEF TypeInv, TypeOK, RedisTypeOK, CallersTypeOK, WorkersTypeOK, DbTypeOK, TriesLeft, BusyHasJob,
              Statuses, redis, callers, workers, db, Goto, WGoto
  <2>1. ASSUME NEW c \in Callers, Call(c) PROVE TypeInv'
    BY <2>1 DEF Call
  <2>2. ASSUME NEW c \in Callers, Watch(c) PROVE TypeInv'
    <3>1. tries[c] + 1 \in 0..MaxTries
      BY <2>2 DEF Watch
    <3>2. tries' \in [Callers -> 0..MaxTries]
      BY <2>2, <3>1 DEF Watch
    <3>3. watch' \in [Callers -> {"none", "clean", "dirty"}] /\ TriesLeft'
      BY <2>2 DEF Watch
    <3> QED
      BY <2>2, <3>2, <3>3 DEF Watch
  <2>3. ASSUME NEW c \in Callers, Get(c) \/ Fetch(c) \/ GetStatus(c) PROVE TypeInv'
    BY <2>3 DEF Get, Fetch, GetStatus, Break
  <2>4. ASSUME NEW c \in Callers, Drop(c) PROVE TypeInv'
    BY <2>4 DEF Drop, DeleteLock, Touched
  <2>5. ASSUME NEW c \in Callers, Create(c) PROVE TypeInv'
    BY <2>5 DEF Create
  <2>6. ASSUME NEW c \in Callers, Exec(c) PROVE TypeInv'
    <3>1. lock' \in Jobs \cup {NoJob} /\ TriesLeft'
      BY <2>6 DEF Exec, Break
    <3>2. /\ watch' \in [Callers -> {"none", "clean", "dirty"}]
          /\ cpc' \in [Callers -> {"idle", "watch", "get", "fetch", "status", "drop", "create", "exec", "done"}]
      BY <2>6 DEF Exec, Break, Touched
    <3> QED
      BY <2>6, <3>1, <3>2 DEF Exec
  <2>7. ASSUME NEW j \in Jobs, CancelRead(j) PROVE TypeInv'
    BY <2>7 DEF CancelRead
  <2>8. ASSUME NEW j \in Jobs, CancelWrite(j) PROVE TypeInv'
    BY <2>8 DEF CancelWrite
  <2>9. ASSUME NEW j \in Jobs, JobExpires(j) \/ RegistryCleanup(j) PROVE TypeInv'
    BY <2>9 DEF JobExpires, RegistryCleanup
  <2>10. ASSUME NEW w \in Workers, NEW j \in Jobs, Dequeue(w, j) PROVE TypeInv'
    BY <2>10 DEF Dequeue
  <2>11. ASSUME NEW w \in Workers, Start(w) \/ Run(w) \/ RunQuery(w) \/ QueryFailed(w) PROVE TypeInv'
    BY <2>11 DEF Start, Run, RunQuery, QueryFailed
  <2>12. ASSUME NEW w \in Workers, Unlock(w) PROVE TypeInv'
    BY <2>12 DEF Unlock, DeleteLock, Touched
  <2>13. ASSUME NEW w \in Workers, Commit(w) \/ CheckAlerts(w) PROVE TypeInv'
    BY <2>13 DEF Commit, CheckAlerts
  <2>14. ASSUME NEW w \in Workers, Finish(w) \/ Fail(w) PROVE TypeInv'
    BY <2>14 DEF Finish, Fail, Leave
  <2>15. ASSUME NEW w \in Workers, Interrupt(w) \/ SoftLimit(w) PROVE TypeInv'
    BY <2>15 DEF Interrupt, SoftLimit, RaiseIn, InRun
  <2>16. ASSUME NEW w \in Workers, HardLimit(w) \/ HorseDies(w) \/ WorkerDies(w) PROVE TypeInv'
    BY <2>16 DEF HardLimit, HorseDies, Killed, WorkerDies, Busy
  <2>17. CASE LockExpires
    BY <2>17 DEF LockExpires, Touched
  <2>18. CASE UNCHANGED vars
    BY <2>18 DEF vars
  <2> QED
    BY <2>1, <2>2, <2>3, <2>4, <2>5, <2>6, <2>7, <2>8, <2>9, <2>10, <2>11, <2>12, <2>13, <2>14, <2>15,
       <2>16, <2>17, <2>18
       DEF Next, EnqueueStep, WorkerStep
<1>3. TypeInv => TypeOK
  BY DEF TypeInv
<1> QED
  BY <1>1, <1>2, <1>3, PTL DEF Spec

(***************************************************************************)
(* The lock and the callers.  Only enqueue_query, _unlock and the expiry   *)
(* of the key touch them; every other step leaves them alone.              *)
(***************************************************************************)
LockVars == <<lock, created, callers>>

LEMMA OtherStepsKeepLock ==
  ASSUME [Next]_vars
  PROVE  \/ \E c \in Callers : Call(c) \/ EnqueueStep(c)
         \/ \E w \in Workers : Unlock(w)
         \/ LockExpires
         \/ UNCHANGED LockVars
<1> USE DEF LockVars, redis
<1>1. ASSUME NEW j \in Jobs, CancelRead(j) \/ CancelWrite(j) \/ JobExpires(j) \/ RegistryCleanup(j)
      PROVE  UNCHANGED LockVars
  BY <1>1 DEF CancelRead, CancelWrite, JobExpires, RegistryCleanup
<1>2. ASSUME NEW w \in Workers,
             (\E j \in Jobs : Dequeue(w, j)) \/ Start(w) \/ Run(w) \/ RunQuery(w) \/ QueryFailed(w)
               \/ Commit(w) \/ CheckAlerts(w) \/ Finish(w) \/ Fail(w)
      PROVE  UNCHANGED LockVars
  BY <1>2 DEF Dequeue, Start, Run, RunQuery, QueryFailed, Commit, CheckAlerts, Finish, Fail, Leave
<1>3. ASSUME NEW w \in Workers,
             Interrupt(w) \/ SoftLimit(w) \/ HardLimit(w) \/ HorseDies(w) \/ WorkerDies(w)
      PROVE  UNCHANGED LockVars
  BY <1>3 DEF Interrupt, SoftLimit, RaiseIn, HardLimit, HorseDies, Killed, WorkerDies
<1>4. UNCHANGED vars => UNCHANGED LockVars
  BY DEF vars
<1> QED
  BY <1>1, <1>2, <1>3, <1>4 DEF Next, WorkerStep

\* Whatever the lock or a local variable of a caller names was enqueued.
NamesAreJobs ==
  /\ lock \in created \cup {NoJob}
  /\ \A c \in Callers :
       /\ job[c] \in created \cup {NoJob} /\ found[c] \in created \cup {NoJob}
       /\ cpc[c] \in {"status", "exec", "done"} => job[c] # NoJob
       /\ cpc[c] \in {"fetch", "status"} => found[c] # NoJob

\* A caller whose EXEC can succeed has seen the key absent, and it still is.
CleanMeansFree ==
  \A c \in Callers : watch[c] = "clean" /\ cpc[c] \in {"create", "exec"} => lock = NoJob

LEMMA NamesAreJobsStep ==
  ASSUME TypeInv, NamesAreJobs, [Next]_vars
  PROVE  NamesAreJobs'
<1> USE DEF TypeInv, TypeOK, RedisTypeOK, CallersTypeOK, NamesAreJobs, Goto
<1>1. ASSUME NEW c \in Callers, Call(c) \/ Watch(c) PROVE NamesAreJobs'
  BY <1>1, ConstantsAssumption DEF Call, Watch, redis
<1>2. ASSUME NEW c \in Callers, Get(c) PROVE NamesAreJobs'
  BY <1>2 DEF Get, Break, redis
<1>3. ASSUME NEW c \in Callers, Fetch(c) \/ GetStatus(c) PROVE NamesAreJobs'
  BY <1>3 DEF Fetch, GetStatus, Break, redis
<1>4. ASSUME NEW c \in Callers, Drop(c) PROVE NamesAreJobs'
  BY <1>4 DEF Drop, DeleteLock
<1>5. ASSUME NEW c \in Callers, Create(c) PROVE NamesAreJobs'
  BY <1>5, ConstantsAssumption DEF Create
<1>6. ASSUME NEW c \in Callers, Exec(c) PROVE NamesAreJobs'
  BY <1>6 DEF Exec, Break
<1>7. ASSUME NEW w \in Workers, Unlock(w) PROVE NamesAreJobs'
  BY <1>7 DEF Unlock, DeleteLock
<1>8. CASE LockExpires
  BY <1>8 DEF LockExpires
<1>9. CASE UNCHANGED LockVars
  BY <1>9 DEF LockVars, callers
<1> QED
  BY <1>1, <1>2, <1>3, <1>4, <1>5, <1>6, <1>7, <1>8, <1>9, OtherStepsKeepLock DEF EnqueueStep

LEMMA CleanMeansFreeStep ==
  ASSUME TypeInv, CleanMeansFree, [Next]_vars
  PROVE  CleanMeansFree'
<1> USE DEF TypeInv, TypeOK, CallersTypeOK, CleanMeansFree, Goto
<1>1. ASSUME NEW c \in Callers, Call(c) \/ Watch(c) PROVE CleanMeansFree'
  BY <1>1 DEF Call, Watch, redis
<1>2. ASSUME NEW c \in Callers, Get(c) PROVE CleanMeansFree'
  BY <1>2 DEF Get, Break, redis
<1>3. ASSUME NEW c \in Callers, Fetch(c) \/ GetStatus(c) PROVE CleanMeansFree'
  BY <1>3 DEF Fetch, GetStatus, Break, redis
<1>4. ASSUME NEW c \in Callers, Drop(c) PROVE CleanMeansFree'
  BY <1>4 DEF Drop, DeleteLock
<1>5. ASSUME NEW c \in Callers, Create(c) PROVE CleanMeansFree'
  BY <1>5 DEF Create
<1>6. ASSUME NEW c \in Callers, Exec(c) PROVE CleanMeansFree'
  BY <1>6 DEF Exec, Break, Touched
<1>7. ASSUME NEW w \in Workers, Unlock(w) PROVE CleanMeansFree'
  BY <1>7 DEF Unlock, DeleteLock
<1>8. CASE LockExpires
  BY <1>8 DEF LockExpires
<1>9. CASE UNCHANGED LockVars
  BY <1>9 DEF LockVars, callers
<1> QED
  BY <1>1, <1>2, <1>3, <1>4, <1>5, <1>6, <1>7, <1>8, <1>9, OtherStepsKeepLock DEF EnqueueStep

LEMMA NoTakeoverStep ==
  ASSUME TypeInv, CleanMeansFree, [Next]_vars, lock # NoJob, lock' # lock
  PROVE  lock' = NoJob
<1>1. ASSUME NEW c \in Callers, EnqueueStep(c) \/ Call(c) PROVE lock' = NoJob
  <2>1. ~Exec(c)
    BY <1>1 DEF Exec, CleanMeansFree, Break
  <2> QED
    BY <1>1, <2>1 DEF EnqueueStep, Call, Watch, Get, Fetch, GetStatus, Drop, DeleteLock, Create, redis
<1>2. ASSUME NEW w \in Workers, Unlock(w) PROVE lock' = NoJob
  BY <1>2 DEF Unlock, DeleteLock
<1>3. LockExpires => lock' = NoJob
  BY DEF LockExpires
<1> QED
  BY <1>1, <1>2, <1>3, OtherStepsKeepLock DEF LockVars

\* Every call of enqueue_query returns a job that exists (its error branch is never taken), and the
\* lock never passes from one job to another: WATCH does protect the key, for any number of callers.
THEOREM EnqueueIsSafe == Spec => []CallerGetsAJob /\ NoTakeover
<1>1. Init => NamesAreJobs /\ CleanMeansFree
  BY DEF Init, NamesAreJobs, CleanMeansFree
<1>2. TypeInv /\ NamesAreJobs /\ CleanMeansFree /\ [Next]_vars => NamesAreJobs' /\ CleanMeansFree'
  BY NamesAreJobsStep, CleanMeansFreeStep
<1>3. NamesAreJobs => CallerGetsAJob
  BY DEF NamesAreJobs, CallerGetsAJob
<1>4. TypeInv /\ CleanMeansFree /\ [Next]_vars => [lock # NoJob /\ lock' # lock => lock' = NoJob]_vars
  BY NoTakeoverStep
<1> QED
  BY <1>1, <1>2, <1>3, <1>4, TypeCorrect, PTL DEF Spec, NoTakeover

(***************************************************************************)
(* Jobs in queues and on workers.  The steps of a caller other than        *)
(* queue.enqueue do not touch them.                                        *)
(***************************************************************************)
JobVars == <<status, waiting, created, canceller, workers, db>>

LEMMA CallersKeepJobs ==
  ASSUME NEW c \in Callers,
         Call(c) \/ Watch(c) \/ Get(c) \/ Fetch(c) \/ GetStatus(c) \/ Drop(c) \/ Exec(c)
  PROVE  UNCHANGED JobVars
BY DEF Call, Watch, Get, Fetch, GetStatus, Drop, Exec, JobVars, redis

\* Where a job is agrees with its status, and it is in one place only.
JobsInPlace ==
  /\ OneWorkerPerJob
  /\ waiting \subseteq created
  /\ \A w \in Workers : wjob[w] \in created \cup {NoJob}
  /\ \A j \in waiting : status[j] = "queued"
  /\ \A w \in Workers : wjob[w] # NoJob => status[wjob[w]] \in {"queued", "started"}

LEMMA JobsInPlaceStep ==
  ASSUME TypeInv, JobsInPlace, [Next]_vars
  PROVE  JobsInPlace'
<1> USE ConstantsAssumption DEF TypeInv, TypeOK, RedisTypeOK, WorkersTypeOK, BusyHasJob, Statuses, JobsInPlace,
        OneWorkerPerJob, WGoto
<1>1. CASE UNCHANGED JobVars
  BY <1>1 DEF JobVars, workers
<1>2. ASSUME NEW c \in Callers, Create(c) PROVE JobsInPlace'
  BY <1>2 DEF Create, workers
<1>3. ASSUME NEW j \in Jobs, CancelRead(j) \/ CancelWrite(j) PROVE JobsInPlace'
  BY <1>3 DEF CancelRead, CancelWrite, redis, workers
<1>4. ASSUME NEW j \in Jobs, JobExpires(j) \/ RegistryCleanup(j) PROVE JobsInPlace'
  BY <1>4 DEF JobExpires, RegistryCleanup, workers, Complete
<1>5. ASSUME NEW w \in Workers, NEW j \in Jobs, Dequeue(w, j) PROVE JobsInPlace'
  BY <1>5 DEF Dequeue
<1>6. ASSUME NEW w \in Workers, Start(w) PROVE JobsInPlace'
  BY <1>6 DEF Start
<1>7. ASSUME NEW w \in Workers, Run(w) \/ RunQuery(w) \/ Unlock(w) \/ QueryFailed(w) \/ Commit(w) \/ CheckAlerts(w)
      PROVE JobsInPlace'
  BY <1>7 DEF Run, RunQuery, Unlock, QueryFailed, Commit, CheckAlerts, redis
<1>8. ASSUME NEW w \in Workers, Finish(w) \/ Fail(w) PROVE JobsInPlace'
  BY <1>8 DEF Finish, Fail, Leave
<1>9. ASSUME NEW w \in Workers, Interrupt(w) \/ SoftLimit(w) \/ HardLimit(w) \/ HorseDies(w) PROVE JobsInPlace'
  BY <1>9 DEF Interrupt, SoftLimit, RaiseIn, HardLimit, HorseDies, Killed, redis
<1>10. ASSUME NEW w \in Workers, WorkerDies(w) PROVE JobsInPlace'
  BY <1>10 DEF WorkerDies, redis
<1>11. CASE LockExpires
  BY <1>11, <1>1 DEF LockExpires, JobVars
<1>12. CASE UNCHANGED vars
  BY <1>12, <1>1 DEF vars, JobVars, redis
<1> QED
  BY <1>1, <1>2, <1>3, <1>4, <1>5, <1>6, <1>7, <1>8, <1>9, <1>10, <1>11, <1>12, CallersKeepJobs
     DEF Next, EnqueueStep, WorkerStep

LEMMA NoJobLostStep ==
  ASSUME TypeInv, JobsInPlace, NoJobLost, [Next]_vars
  PROVE  NoJobLost'
<1> USE ConstantsAssumption DEF TypeInv, TypeOK, RedisTypeOK, WorkersTypeOK, BusyHasJob, NoJobLost, Held, WGoto
<1>1. CASE UNCHANGED JobVars
  BY <1>1 DEF JobVars, workers
<1>2. ASSUME NEW c \in Callers, Create(c) PROVE NoJobLost'
  BY <1>2 DEF Create, workers
<1>3. ASSUME NEW j \in Jobs, CancelRead(j) \/ CancelWrite(j) PROVE NoJobLost'
  BY <1>3 DEF CancelRead, CancelWrite, redis, workers
<1>4. ASSUME NEW j \in Jobs, JobExpires(j) \/ RegistryCleanup(j) PROVE NoJobLost'
  BY <1>4 DEF JobExpires, RegistryCleanup, workers
<1>5. ASSUME NEW w \in Workers, NEW j \in Jobs, Dequeue(w, j) PROVE NoJobLost'
  BY <1>5 DEF Dequeue
<1>6. ASSUME NEW w \in Workers, Start(w) PROVE NoJobLost'
  BY <1>6 DEF Start
<1>7. ASSUME NEW w \in Workers, Run(w) \/ RunQuery(w) \/ Unlock(w) \/ QueryFailed(w) \/ Commit(w) \/ CheckAlerts(w)
      PROVE NoJobLost'
  BY <1>7 DEF Run, RunQuery, Unlock, QueryFailed, Commit, CheckAlerts, redis
<1>8. ASSUME NEW w \in Workers, Finish(w) \/ Fail(w) PROVE NoJobLost'
  BY <1>8 DEF Finish, Fail, Leave
<1>9. ASSUME NEW w \in Workers, Interrupt(w) \/ SoftLimit(w) \/ HardLimit(w) \/ HorseDies(w) PROVE NoJobLost'
  BY <1>9 DEF Interrupt, SoftLimit, RaiseIn, HardLimit, HorseDies, Killed, redis
<1>10. ASSUME NEW w \in Workers, WorkerDies(w) PROVE NoJobLost'
  BY <1>10 DEF WorkerDies, redis
<1>11. CASE LockExpires
  BY <1>11, <1>1 DEF LockExpires, JobVars
<1>12. CASE UNCHANGED vars
  BY <1>12, <1>1 DEF vars, JobVars, redis
<1> QED
  BY <1>1, <1>2, <1>3, <1>4, <1>5, <1>6, <1>7, <1>8, <1>9, <1>10, <1>11, <1>12, CallersKeepJobs
     DEF Next, EnqueueStep, WorkerStep

\* How far a work horse is tells what its job has published.
HorseAndResult ==
  /\ results \subseteq created
  /\ waiting \cap results = {}
  /\ \A w \in Workers :
       /\ wpc[w] \in {"forked", "prepare", "running", "ran", "failedQuery", "unlocked"} => wjob[w] \notin results
       /\ wpc[w] = "ran" => outcome[wjob[w]] # "none"
       /\ wpc[w] \in {"unlocked", "committed"} => outcome[wjob[w]] = "data"
       /\ wpc[w] = "committed" => wjob[w] \in results
       /\ wpc[w] = "failedQuery" => outcome[wjob[w]] = "error"
       /\ wpc[w] = "returned" => wjob[w] \in results \/ outcome[wjob[w]] = "error"

ResultInv == ResultsAreCommitted /\ HorseAndResult

LEMMA ResultInvStep ==
  ASSUME TypeInv, JobsInPlace, ResultInv, [Next]_vars
  PROVE  ResultInv'
<1> USE ConstantsAssumption DEF TypeInv, TypeOK, RedisTypeOK, WorkersTypeOK, DbTypeOK, BusyHasJob, Statuses,
        JobsInPlace, OneWorkerPerJob, ResultInv, ResultsAreCommitted, HorseAndResult, WGoto
<1>1. CASE UNCHANGED JobVars
  BY <1>1 DEF JobVars, workers, db
<1>2. ASSUME NEW c \in Callers, Create(c) PROVE ResultInv'
  BY <1>2 DEF Create, workers, db
<1>3. ASSUME NEW j \in Jobs, CancelRead(j) \/ CancelWrite(j) PROVE ResultInv'
  BY <1>3 DEF CancelRead, CancelWrite, redis, workers, db
<1>4. ASSUME NEW j \in Jobs, JobExpires(j) \/ RegistryCleanup(j) PROVE ResultInv'
  BY <1>4 DEF JobExpires, RegistryCleanup, workers, db
<1>5. ASSUME NEW w \in Workers, NEW j \in Jobs, Dequeue(w, j) PROVE ResultInv'
  BY <1>5 DEF Dequeue, db
<1>6. ASSUME NEW w \in Workers, Start(w) \/ Run(w) PROVE ResultInv'
  BY <1>6 DEF Start, Run, redis, db
<1>7. ASSUME NEW w \in Workers, RunQuery(w) PROVE ResultInv'
  BY <1>7 DEF RunQuery, redis, db
<1>8. ASSUME NEW w \in Workers, Unlock(w) \/ QueryFailed(w) PROVE ResultInv'
  BY <1>8 DEF Unlock, QueryFailed, redis, db
<1>9. ASSUME NEW w \in Workers, Commit(w) PROVE ResultInv'
  BY <1>9 DEF Commit, redis
<1>10. ASSUME NEW w \in Workers, CheckAlerts(w) PROVE ResultInv'
  BY <1>10 DEF CheckAlerts, redis
<1>11. ASSUME NEW w \in Workers, Finish(w) \/ Fail(w) PROVE ResultInv'
  BY <1>11 DEF Finish, Fail, Leave, db
<1>12. ASSUME NEW w \in Workers, Interrupt(w) \/ SoftLimit(w) PROVE ResultInv'
  BY <1>12 DEF Interrupt, SoftLimit, RaiseIn, redis, db
<1>13. ASSUME NEW w \in Workers, HardLimit(w) \/ HorseDies(w) PROVE ResultInv'
  BY <1>13 DEF HardLimit, HorseDies, Killed, redis, db
<1>14. ASSUME NEW w \in Workers, WorkerDies(w) PROVE ResultInv'
  BY <1>14 DEF WorkerDies, redis, db
<1>15. CASE LockExpires
  BY <1>15, <1>1 DEF LockExpires, JobVars
<1>16. CASE UNCHANGED vars
  BY <1>16, <1>1 DEF vars, JobVars, redis
<1> QED
  BY <1>1, <1>2, <1>3, <1>4, <1>5, <1>6, <1>7, <1>8, <1>9, <1>10, <1>11, <1>12, <1>13, <1>14, <1>15, <1>16,
     CallersKeepJobs
     DEF Next, EnqueueStep, WorkerStep

\* No job is executed by two workers or lost by a kill, a timeout or an interrupt, and what a finished
\* job or an alert check refers to is a committed result of a query that succeeded.
THEOREM JobsAreSafe == Spec => [](OneWorkerPerJob /\ NoJobLost /\ ResultsAreCommitted)
<1>1. Init => JobsInPlace /\ NoJobLost /\ ResultInv
  BY ConstantsAssumption
     DEF Init, JobsInPlace, OneWorkerPerJob, NoJobLost, ResultInv, ResultsAreCommitted, HorseAndResult
<1>2. TypeInv /\ JobsInPlace /\ NoJobLost /\ ResultInv /\ [Next]_vars => JobsInPlace' /\ NoJobLost' /\ ResultInv'
  BY JobsInPlaceStep, NoJobLostStep, ResultInvStep
<1>3. JobsInPlace /\ ResultInv => OneWorkerPerJob /\ ResultsAreCommitted
  BY DEF JobsInPlace, ResultInv
<1> QED
  BY <1>1, <1>2, <1>3, TypeCorrect, PTL DEF Spec

(***************************************************************************)
(* QueryJobs implements JobLifecycle.                                      *)
(***************************************************************************)
Phases == [j \in Jobs |-> Phase(j)]

LEMMA LifecycleStutters ==
  ASSUME UNCHANGED <<waiting, created, wjob, results, latest>>
  PROVE  UNCHANGED Lifecycle!vars
BY DEF Lifecycle!vars, Phase, Held

\* If one job goes from one phase to another and the others stay, the step is Lifecycle's Move.
LEMMA OneJobMoves ==
  ASSUME NEW j \in Jobs, NEW from, NEW to,
         Phase(j) = from, Phase(j)' = to, \A k \in Jobs \ {j} : Phase(k)' = Phase(k),
         UNCHANGED <<results, latest>>
  PROVE  Lifecycle!Move(j, from, to)
<1>1. Phases' = [Phases EXCEPT ![j] = to]
  BY DEF Phases
<1> QED
  BY <1>1 DEF Lifecycle!Move, Phases

LEMMA LifecycleStep ==
  ASSUME TypeInv, JobsInPlace, ResultInv, [Next]_vars
  PROVE  [Lifecycle!Next]_Lifecycle!vars
<1> USE ConstantsAssumption DEF TypeInv, TypeOK, RedisTypeOK, WorkersTypeOK, DbTypeOK, BusyHasJob, JobsInPlace,
        OneWorkerPerJob, Phase, Held, WGoto
<1>1. CASE UNCHANGED <<waiting, created, wjob, results, latest>>
  BY <1>1, LifecycleStutters
<1>2. ASSUME NEW c \in Callers, Create(c) PROVE Lifecycle!Next
  <2>1. PICK j \in Jobs \ created : created' = created \cup {j} /\ waiting' = waiting \cup {j}
    BY <1>2 DEF Create
  <2>2. UNCHANGED <<wjob, results, latest>>
    BY <1>2 DEF Create, workers, db
  <2>3. Phase(j) = "new" /\ Phase(j)' = "pending" /\ \A k \in Jobs \ {j} : Phase(k)' = Phase(k)
    BY <2>1, <2>2
  <2> QED
    BY <2>1, <2>2, <2>3, OneJobMoves DEF Lifecycle!Next, Lifecycle!Submit
<1>3. ASSUME NEW j \in Jobs, CancelWrite(j), j \in waiting PROVE Lifecycle!Next
  <2>1. waiting' = waiting \ {j} /\ UNCHANGED <<created, wjob, results, latest>>
    BY <1>3 DEF CancelWrite, workers, db
  <2>2. Phase(j) = "pending" /\ Phase(j)' = "over" /\ \A k \in Jobs \ {j} : Phase(k)' = Phase(k)
    BY <1>3, <2>1
  <2> QED
    BY <2>1, <2>2, OneJobMoves DEF Lifecycle!Next, Lifecycle!Withdraw
<1>4. ASSUME NEW w \in Workers, NEW j \in Jobs, Dequeue(w, j) PROVE Lifecycle!Next
  <2>1. waiting' = waiting \ {j} /\ wjob' = [wjob EXCEPT ![w] = j] /\ wjob[w] = NoJob
    BY <1>4 DEF Dequeue
  <2>2. UNCHANGED <<created, results, latest>>
    BY <1>4 DEF Dequeue, db
  <2>3. Phase(j) = "pending" /\ Phase(j)' = "running"
    BY <1>4, <2>1, <2>2 DEF Dequeue
  <2>4. \A k \in Jobs \ {j} : Phase(k)' = Phase(k)
    BY <2>1, <2>2
  <2> QED
    BY <2>2, <2>3, <2>4, OneJobMoves DEF Lifecycle!Next, Lifecycle!Begin
<1>5. ASSUME NEW w \in Workers, wjob[w] # NoJob, wjob' = [wjob EXCEPT ![w] = NoJob],
             UNCHANGED <<waiting, created, results, latest>>
      PROVE  Lifecycle!Next
  <2>1. PICK j \in Jobs : j = wjob[w]
    BY <1>5
  <2>2. Phase(j) = "running" /\ Phase(j)' = "over"
    BY <1>5, <2>1
  <2>3. \A k \in Jobs \ {j} : Phase(k)' = Phase(k)
    BY <1>5, <2>1
  <2> QED
    BY <1>5, <2>2, <2>3, OneJobMoves DEF Lifecycle!Next, Lifecycle!End
<1>6. ASSUME NEW w \in Workers, Commit(w) PROVE Lifecycle!Next
  <2>1. wjob[w] \in Jobs /\ Phase(wjob[w]) = "running" /\ wjob[w] \notin results
    BY <1>6 DEF Commit, ResultInv, HorseAndResult
  <2>2. results' = results \cup {wjob[w]} /\ latest' = wjob[w] /\ UNCHANGED <<waiting, created, wjob>>
    BY <1>6 DEF Commit, redis
  <2>3. \A k \in Jobs : Phase(k)' = Phase(k)
    BY <2>2
  <2> QED
    BY <2>1, <2>2, <2>3 DEF Lifecycle!Next, Lifecycle!Publish
<1>7. ASSUME NEW w \in Workers, Finish(w) \/ Fail(w) \/ WorkerDies(w) PROVE Lifecycle!Next
  BY <1>5, <1>7 DEF Finish, Fail, Leave, WorkerDies, redis, db
<1>8. ASSUME NEW j \in Jobs, CancelRead(j) \/ JobExpires(j) \/ RegistryCleanup(j) \/ (CancelWrite(j) /\ j \notin waiting)
      PROVE  UNCHANGED <<waiting, created, wjob, results, latest>>
  BY <1>8 DEF CancelRead, CancelWrite, JobExpires, RegistryCleanup, redis, workers, db
<1>9. ASSUME NEW w \in Workers,
             \/ Start(w) \/ Run(w) \/ RunQuery(w) \/ Unlock(w) \/ QueryFailed(w) \/ CheckAlerts(w)
             \/ Interrupt(w) \/ SoftLimit(w) \/ HardLimit(w) \/ HorseDies(w)
      PROVE  UNCHANGED <<waiting, created, wjob, results, latest>>
  BY <1>9 DEF Start, Run, RunQuery, Unlock, QueryFailed, CheckAlerts, Interrupt, SoftLimit, RaiseIn, HardLimit,
              HorseDies, Killed, redis, db
<1>10. CASE LockExpires
  BY <1>1, <1>10 DEF LockExpires, workers, db
<1>11. CASE UNCHANGED vars
  BY <1>1, <1>11 DEF vars, redis, workers, db
<1>12. ASSUME NEW c \in Callers, Call(c) \/ (EnqueueStep(c) /\ ~Create(c)) PROVE [Lifecycle!Next]_Lifecycle!vars
  BY <1>1, <1>12, CallersKeepJobs DEF EnqueueStep, JobVars, workers, db
<1> QED
  BY <1>1, <1>2, <1>3, <1>4, <1>6, <1>7, <1>8, <1>9, <1>10, <1>11, <1>12 DEF Next, EnqueueStep, WorkerStep

\* Whatever callers, users, signals, expiries and crashes do, a job waits once, is executed once and publishes
\* at most one result, while it is executed (execute_query under HardLimitingWorker).
THEOREM JobsImplementLifecycle == Spec => ImplementsLifecycle
<1>1. Init => Lifecycle!Init
  BY DEF Init, Lifecycle!Init, Phase
<1>2. Init => JobsInPlace /\ ResultInv
  BY ConstantsAssumption
     DEF Init, JobsInPlace, OneWorkerPerJob, ResultInv, ResultsAreCommitted, HorseAndResult
<1>3. TypeInv /\ JobsInPlace /\ ResultInv /\ [Next]_vars =>
        JobsInPlace' /\ ResultInv' /\ [Lifecycle!Next]_Lifecycle!vars
  BY JobsInPlaceStep, ResultInvStep, LifecycleStep
<1> QED
  BY <1>1, <1>2, <1>3, TypeCorrect, PTL DEF Spec, ImplementsLifecycle, Lifecycle!Spec
==============================================================================
