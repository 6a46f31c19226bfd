----------------------- MODULE ScheduledRefreshProofs -----------------------
(***************************************************************************)
(* Proofs about ScheduledRefresh, for any number of queries and jobs, any  *)
(* intervals and any distribution of texts over queries.                   *)
(***************************************************************************)
EXTENDS ScheduledRefresh, TLAPS

\* The executed entry is not older than an interval: no snapshot taken since can report the query.
Young(a, q) == a # Never /\ a <= Interval[q]

\* The queries of which ThirdStartWaits speaks.
Safe == Queries \ unguarded

\* A waiting job of a query holds the lock of what the query would be enqueued with now.
Guarded ==
  \A j \in Jobs, q \in Safe : Waits(j, q) => jobs[j].sql = Sql(q) /\ lock[Sql(q)] = j

\* After a start a query waits in the snapshot or in the queue, not in both.
OnePending == \A q \in Safe : Young(executed[q], q) /\ q \in todo => \A j \in Jobs : ~Waits(j, q)

\* After two starts within an interval it waits nowhere.
NonePending == \A q \in Safe : Young(before[q], q) => q \notin todo /\ \A j \in Jobs : ~Waits(j, q)

BeforeIsOlder == \A q \in Queries : before[q] # Never => executed[q] # Never /\ executed[q] <= before[q]

RefreshInv == TypeOK /\ Guarded /\ OnePending /\ NonePending /\ BeforeIsOlder

\* Only queries whose tracked execution is more than an interval ago are reported.
LEMMA ReportedIsDue ==
  ASSUME TypeOK, NEW q \in Reported
  PROVE  q \in Queries /\ ~Young(executed[q], q)
<1> USE RefreshAssumption
<1>1. q \in Queries /\ Due(q)
  BY DEF Reported, Outdated
<1>2. failures[q] \in 0 .. Overflow /\ failures[q] < Overflow
  BY <1>1 DEF Due, TypeOK
<1>3. Backoff(failures[q]) \in Nat
  BY <1>2, BackoffAssumption
<1>4. CASE executed[q] # Never
  <2>1. executed[q] \in Nat /\ Interval[q] \in Nat
    BY <1>1, <1>4 DEF TypeOK, Ages
  <2>2. executed[q] > Interval[q] + Backoff(failures[q])
    BY <1>1, <1>4 DEF Due, Since
  <2> QED
    BY <1>1, <1>3, <2>1, <2>2 DEF Young
<1> QED
  BY <1>1, <1>4 DEF Young

\* No two jobs of a query wait: they would hold the same lock.
LEMMA OneWaits ==
  ASSUME RefreshInv, NEW q \in Safe, NEW i \in Jobs, NEW j \in Jobs, Waits(i, q), Waits(j, q)
  PROVE  i = j
<1>1. lock[Sql(q)] = i /\ lock[Sql(q)] = j
  BY DEF RefreshInv, Guarded
<1> QED
  BY <1>1

\* enqueue_query changes nothing, queues a job with a lock that was free, or one without a lock.
LEMMA EnqueueEffect ==
  ASSUME TypeOK, NEW sql \in Sqls, NEW q \in Queries \cup {NoQuery}, EnqueueQuery(sql, q)
  PROVE  \/ UNCHANGED <<jobs, lock, unguarded>>
         \/ \E j \in Jobs :
              /\ jobs' = [jobs EXCEPT ![j] =
                          [state |-> "queued", query |-> q, sql |-> sql, seen |-> 0]]
              /\ \/ lock[sql] = Never /\ lock' = [lock EXCEPT ![sql] = j] /\ unguarded' = unguarded
                 \/ lock' = lock /\ unguarded' = unguarded \cup ({q} \cap Queries)
BY DEF EnqueueQuery, QueueUnlocked, Queue, Locked, locks

\* The lock goes only from jobs of queries that are then no longer spoken of.
LEMMA DropLockEffect ==
  ASSUME TypeOK, NEW sql \in Sqls \cup {Never}, DropLock(sql)
  PROVE  /\ unguarded' \subseteq Queries /\ lock' \in [Sqls -> Jobs \cup {Never}]
         /\ unguarded \subseteq unguarded'
         /\ \A q \in Queries \ unguarded', j \in Jobs : \A s \in Sqls :
              Waits(j, q) /\ lock[s] = j => lock'[s] = j
<1>1. \A q \in Queries \ unguarded', j \in Jobs : Waits(j, q) => lock[sql] # j
  BY DEF DropLock, Exposed
<1>2. \A s \in Sqls : s # sql => lock'[s] = lock[s]
  BY DEF DropLock, TypeOK
<1>3. unguarded' \subseteq Queries /\ lock' \in [Sqls -> Jobs \cup {Never}] /\ unguarded \subseteq unguarded'
  BY DEF DropLock, Exposed, TypeOK
<1> QED
  BY <1>1, <1>2, <1>3

LEMMA EnqueueTypes ==
  ASSUME TypeOK, NEW sql \in Sqls, NEW q \in Queries \cup {NoQuery}, EnqueueQuery(sql, q)
  PROVE  jobs' \in [Jobs -> Job] /\ lock' \in [Sqls -> Jobs \cup {Never}] /\ unguarded' \subseteq Queries
<1>1. [state |-> "queued", query |-> q, sql |-> sql, seen |-> 0] \in Job
  BY DEF Job, JobStates
<1> QED
  BY <1>1, EnqueueEffect DEF TypeOK

\* The types are preserved by every step.
LEMMA RefreshTypes == TypeOK /\ [Next]_vars => TypeOK'
<1> SUFFICES ASSUME TypeOK, [Next]_vars PROVE TypeOK'
  OBVIOUS
<1> USE RefreshAssumption DEF TypeOK
<1> USE DEF query, ages, locks
<1>1. ASSUME Tick PROVE TypeOK'
  <2>1. \A a \in Ages : Older(a) \in Ages
    BY DEF Older, Ages
  <2> QED
    BY <1>1, <2>1 DEF Tick
<1>2. ASSUME User PROVE TypeOK'
  <2>1. ASSUME NEW q \in Queries, NEW u \in {"none", "open", "bad"}, EditSchedule(q, u) PROVE TypeOK'
    BY <2>1 DEF EditSchedule, Schedules, NoSchedule
  <2>2. ASSUME NEW q \in Queries, Pass(q) PROVE TypeOK'
    BY <2>2 DEF Pass, Schedules, NoSchedule
  <2>3. ASSUME NEW q \in Queries, NEW t \in Texts, EditText(q, t) PROVE TypeOK'
    BY <2>3 DEF EditText
  <2>4. ASSUME NEW on \in BOOLEAN, SetPaused(on) PROVE TypeOK'
    BY <2>4 DEF SetPaused
  <2>5. ASSUME NEW q \in Queries, RunManually(q) PROVE TypeOK'
    <3>1. Sql(q) \in Sqls /\ NoQuery \in Queries \cup {NoQuery}
      BY DEF Sql, Sqls, NoQuery
    <3>2. jobs' \in [Jobs -> Job] /\ lock' \in [Sqls -> Jobs \cup {Never}] /\ unguarded' \subseteq Queries
      BY <2>5, <3>1, EnqueueTypes DEF RunManually
    <3> QED
      BY <2>5, <3>2 DEF RunManually
  <2> QED
    BY <1>2, <2>1, <2>2, <2>3, <2>4, <2>5 DEF User
<1>3. ASSUME Refresh PROVE TypeOK'
  <2>1. Reported \subseteq Queries
    BY DEF Reported, Outdated
  <2>2. schedule' \in [Queries -> Schedules]
    BY <1>3 DEF Refresh, Schedules
  <2>3. loaded' \in [Queries -> Nat \cup {Never}]
    BY <1>3 DEF Refresh
  <2> QED
    BY <1>3, <2>1, <2>2, <2>3 DEF Refresh
<1>4. ASSUME NEW q \in Queries, Skip(q) \/ TrackInvalid(q) PROVE TypeOK'
  <2>1. Handled(q) /\ UNCHANGED <<jobs, lock, unguarded>>
    BY <1>4 DEF Skip, TrackInvalid
  <2>2. failures' \in [Queries -> Nat] /\ loaded' \in [Queries -> Nat \cup {Never}]
    BY <1>4 DEF Skip, TrackInvalid, Counted
  <2> QED
    BY <2>1, <2>2 DEF Handled
<1>4a. ASSUME NEW q \in Queries, Enqueue(q) PROVE TypeOK'
  <2>0. Sql(q) \in Sqls
    BY DEF Sql, Sqls, NoQuery
  <2>1. jobs' \in [Jobs -> Job] /\ lock' \in [Sqls -> Jobs \cup {Never}] /\ unguarded' \subseteq Queries
    BY <1>4a, <2>0, EnqueueTypes DEF Enqueue
  <2>2. Handled(q) /\ UNCHANGED <<failures, loaded>>
    BY <1>4a DEF Enqueue
  <2> QED
    BY <2>1, <2>2 DEF Handled
<1>5. ASSUME EmptyRead \/ EmptyWrite PROVE TypeOK'
  <2>1. NoSchedule \in Schedules
    BY DEF NoSchedule, Schedules
  <2>2. schedule' \in [Queries -> Schedules] /\ emptying' \subseteq Queries
    BY <1>5, <2>1 DEF EmptyRead, EmptyWrite
  <2> QED
    BY <1>5, <2>2 DEF EmptyRead, EmptyWrite
<1>6. ASSUME NEW j \in Jobs, Start(j) PROVE TypeOK'
  <2>1. jobs' \in [Jobs -> Job]
    <3>1. jobs[j].query \in Queries \cup {NoQuery} /\ jobs[j].sql \in Sqls \cup {Never}
      BY DEF Job
    <3>2. (IF jobs[j].query = NoQuery THEN 0 ELSE failures[jobs[j].query]) \in Nat
      BY <3>1
    <3> QED
      BY <1>6, <3>1, <3>2 DEF Start, Job, JobStates
  <2>2. executed' \in [Queries -> Ages] /\ before' \in [Queries -> Ages]
    BY <1>6 DEF Start, Ages
  <2> QED
    BY <1>6, <2>1, <2>2 DEF Start
<1>7. ASSUME NEW j \in Jobs, Finish(j) PROVE TypeOK'
  <2>1. ASSUME NEW o \in {"succeeded", "failed"}, Unlock(j, o) PROVE TypeOK'
    <3>1. jobs[j].sql \in Sqls \cup {Never}
      BY DEF Job
    <3>2. lock' \in [Sqls -> Jobs \cup {Never}] /\ unguarded' \subseteq Queries
      BY <2>1, <3>1, DropLockEffect DEF Unlock
    <3>3. jobs' \in [Jobs -> Job]
      BY <2>1 DEF Unlock, Job, JobStates
    <3> QED
      BY <2>1, <3>2, <3>3 DEF Unlock
  <2>0. jobs' = [jobs EXCEPT ![j] = Free] => jobs' \in [Jobs -> Job]
    BY DEF Free, Job, JobStates, NoQuery
  <2>2. CASE Succeed(j)
    <3>1. failures' \in [Queries -> Nat] /\ result' \in [Queries -> Ages]
      BY <2>2 DEF Succeed, Ages
    <3> QED
      BY <2>0, <2>2, <3>1 DEF Succeed
  <2>3. CASE Fail(j)
    <3>1. jobs[j].seen \in Nat
      BY DEF Job
    <3>2. failures' \in [Queries -> Nat]
      BY <2>3, <3>1 DEF Fail, Counted
    <3> QED
      BY <2>0, <2>3, <3>2 DEF Fail
  <2> QED
    BY <1>7, <2>1, <2>2, <2>3 DEF Finish
<1>7a. ASSUME NEW sql \in Sqls, LockExpires(sql) PROVE TypeOK'
  <2>1. lock' \in [Sqls -> Jobs \cup {Never}] /\ unguarded' \subseteq Queries
    BY <1>7a, DropLockEffect DEF LockExpires
  <2> QED
    BY <1>7a, <2>1 DEF LockExpires
<1>8. UNCHANGED vars => TypeOK'
  BY DEF vars
<1> QED
  BY <1>1, <1>2, <1>3, <1>4, <1>4a, <1>5, <1>6, <1>7, <1>7a, <1>8 DEF Next, Refresher, Emptier

\* The lock and the one pass of a round keep a query from waiting twice.
LEMMA RefreshInvStep ==
  ASSUME RefreshInv, [Next]_vars
  PROVE  RefreshInv'
<1> USE RefreshAssumption DEF RefreshInv
<1>0. TypeOK'
  BY RefreshTypes
<1> USE DEF query, ages, locks, Young, Safe
<1>1. ASSUME Tick PROVE RefreshInv'
  <2>0. ASSUME NEW q \in Queries, NEW a \in Ages PROVE Young(Older(a), q) => Young(a, q)
    <3>1. Interval[q] \in Nat
      OBVIOUS
    <3> QED
      BY <3>1 DEF Older, Ages
  <2>1. ASSUME NEW q \in Queries PROVE Young(executed'[q], q) => Young(executed[q], q)
    BY <1>1, <2>0, <2>1 DEF Tick, TypeOK
  <2>2. ASSUME NEW q \in Queries PROVE Young(before'[q], q) => Young(before[q], q)
    BY <1>1, <2>0, <2>2 DEF Tick, TypeOK
  <2>3. BeforeIsOlder'
    BY <1>1 DEF Tick, Older, TypeOK, Ages, BeforeIsOlder
  <2>4. \A q \in Safe' : q \in Safe \/ (q \notin todo /\ \A j \in Jobs : ~Waits(j, q))
    BY <1>1 DEF Tick, Settled
  <2>5. /\ \A j \in Jobs, q \in Queries : Waits(j, q)' = Waits(j, q)
        /\ \A q \in Queries : Sql(q)' = Sql(q)
        /\ Safe' \subseteq Queries /\ UNCHANGED <<jobs, lock, todo>>
    BY <1>1 DEF Tick, Waits, Sql
  <2>6. Guarded'
    BY <2>4, <2>5 DEF Guarded
  <2>7. OnePending' /\ NonePending'
    BY <2>1, <2>2, <2>4, <2>5 DEF OnePending, NonePending
  <2> QED
    BY <1>0, <2>3, <2>6, <2>7
<1>2. ASSUME User PROVE RefreshInv'
  <2>1. CASE UNCHANGED <<text, params, executed, before, todo, jobs, lock, unguarded>>
    BY <1>0, <2>1 DEF Waits, Guarded, OnePending, NonePending, BeforeIsOlder, Sql
  <2>2. ASSUME NEW q \in Queries, RunManually(q) PROVE RefreshInv'
    <3>1. Sql(q) \in Sqls /\ NoQuery \in Queries \cup {NoQuery} /\ NoQuery \notin Queries
      BY DEF Sql, Sqls, NoQuery, TypeOK
    <3>2. CASE UNCHANGED <<jobs, lock, unguarded>>
      BY <2>1, <2>2, <3>2 DEF RunManually
    <3>3. ASSUME NEW j \in Jobs,
                 jobs' = [jobs EXCEPT ![j] = [state |-> "queued", query |-> NoQuery, sql |-> Sql(q), seen |-> 0]],
                 \/ lock[Sql(q)] = Never /\ lock' = [lock EXCEPT ![Sql(q)] = j]
                 \/ lock' = lock,
                 unguarded' = unguarded
          PROVE  RefreshInv'
      <4>1. \A i \in Jobs, r \in Queries : Waits(i, r)' => Waits(i, r) /\ jobs'[i] = jobs[i]
        BY <3>1, <3>3 DEF Waits, TypeOK
      <4>2. UNCHANGED <<text, params, executed, before, todo>>
        BY <2>2 DEF RunManually
      <4>3. Safe' = Safe /\ \A r \in Queries : Sql(r)' = Sql(r)
        BY <3>3, <4>2 DEF Sql
      <4>4. \A i \in Jobs, s \in Sqls : lock[s] = i => lock'[s] = i
        BY <3>1, <3>3 DEF TypeOK
      <4>5. \A r \in Queries : Sql(r) \in Sqls
        BY DEF Sql, Sqls, NoQuery, TypeOK
      <4>6. Guarded'
        BY <4>1, <4>3, <4>4, <4>5 DEF Guarded
      <4> QED
        BY <1>0, <4>1, <4>2, <4>3, <4>6 DEF OnePending, NonePending, BeforeIsOlder
    <3>4. EnqueueQuery(Sql(q), NoQuery)
      BY <2>2 DEF RunManually
    <3>5. CASE \E j \in Jobs :
              /\ jobs' = [jobs EXCEPT ![j] =
                          [state |-> "queued", query |-> NoQuery, sql |-> Sql(q), seen |-> 0]]
              /\ \/ lock[Sql(q)] = Never /\ lock' = [lock EXCEPT ![Sql(q)] = j] /\ unguarded' = unguarded
                 \/ lock' = lock /\ unguarded' = unguarded \cup ({NoQuery} \cap Queries)
      <4>1. {NoQuery} \cap Queries = {}
        BY <3>1
      <4> QED
        BY <3>3, <3>5, <4>1
    <3> QED
      BY <3>1, <3>2, <3>4, <3>5, EnqueueEffect
  <2>3. ASSUME NEW q \in Queries, NEW t \in Texts, EditText(q, t) PROVE RefreshInv'
    <3>1. /\ unguarded' = unguarded \cup {q} /\ \A r \in Queries : r # q => text'[r] = text[r]
          /\ UNCHANGED <<params, executed, before, todo, jobs, lock>>
      BY <2>3 DEF EditText, TypeOK
    <3>2. \A r \in Safe' : r \in Safe /\ Sql(r)' = Sql(r)
      BY <3>1 DEF Sql
    <3> QED
      BY <1>0, <3>1, <3>2 DEF Waits, Guarded, OnePending, NonePending, BeforeIsOlder
  <2> QED
    BY <1>2, <2>1, <2>2, <2>3 DEF User, EditSchedule, Pass, SetPaused
<1>3. ASSUME Refresh PROVE RefreshInv'
  <2>1. \A q \in todo' : ~Young(executed[q], q)
    BY <1>3, ReportedIsDue DEF Refresh
  <2>2. \A q \in todo' : q \in Queries /\ ~Young(before[q], q)
    <3> SUFFICES ASSUME NEW q \in todo' PROVE q \in Queries /\ ~Young(before[q], q)
      OBVIOUS
    <3>1. q \in Queries /\ ~Young(executed[q], q)
      BY <1>3, ReportedIsDue DEF Refresh
    <3> QED
      BY <3>1 DEF BeforeIsOlder, TypeOK, Ages
  <2> QED
    BY <1>0, <1>3, <2>1, <2>2
    DEF Refresh, Waits, Guarded, OnePending, NonePending, BeforeIsOlder, Sql
<1>4. ASSUME NEW q \in Queries, Skip(q) \/ TrackInvalid(q) PROVE RefreshInv'
  BY <1>0, <1>4
  DEF Skip, TrackInvalid, Handled, Waits, Guarded, OnePending, NonePending, BeforeIsOlder, Sql
<1>5. ASSUME NEW q \in Queries, Enqueue(q) PROVE RefreshInv'
  <2>1. \A r \in Queries : Sql(r) \in Sqls
    BY DEF Sql, Sqls, NoQuery, TypeOK
  <2>2. q \in Safe => ~Young(before[q], q)
    BY <1>5 DEF Enqueue, NonePending
  <2>3. /\ todo' = todo \ {q}
        /\ UNCHANGED <<text, params, executed, before>>
    BY <1>5 DEF Enqueue, Handled
  <2>4. CASE UNCHANGED <<jobs, lock, unguarded>>
    BY <1>0, <2>3, <2>4 DEF Waits, Guarded, OnePending, NonePending, BeforeIsOlder, Sql
  <2>5. ASSUME NEW j \in Jobs,
               jobs' = [jobs EXCEPT ![j] = [state |-> "queued", query |-> q, sql |-> Sql(q), seen |-> 0]],
               \/ lock[Sql(q)] = Never /\ lock' = [lock EXCEPT ![Sql(q)] = j] /\ unguarded' = unguarded
               \/ lock' = lock /\ unguarded' = unguarded \cup ({q} \cap Queries)
        PROVE  RefreshInv'
    <3>1. \A i \in Jobs, r \in Queries : Waits(i, r)' <=> (i = j /\ r = q) \/ (i # j /\ Waits(i, r))
      BY <2>5 DEF Waits, TypeOK
    <3>2. \A i \in Jobs : i # j => jobs'[i] = jobs[i]
      BY <2>5 DEF TypeOK
    <3>3. jobs'[j].sql = Sql(q)
      BY <2>5 DEF TypeOK
    <3>4. Safe' \subseteq Safe /\ \A r \in Queries : Sql(r)' = Sql(r)
      BY <2>3, <2>5 DEF Sql
    <3>5. q \in Safe' => (\A i \in Jobs : ~Waits(i, q)) /\ lock'[Sql(q)] = j
      <4> SUFFICES ASSUME q \in Safe' PROVE (\A i \in Jobs : ~Waits(i, q)) /\ lock'[Sql(q)] = j
        OBVIOUS
      <4>1. lock[Sql(q)] = Never /\ lock' = [lock EXCEPT ![Sql(q)] = j]
        BY <2>5
      <4>2. q \in Safe
        BY <3>4
      <4>3. \A i \in Jobs : ~Waits(i, q)
        BY <4>1, <4>2 DEF Guarded
      <4> QED
        BY <2>1, <4>1, <4>3 DEF TypeOK
    <3>6. \A i \in Jobs, s \in Sqls : lock[s] = i => lock'[s] = i
      BY <2>1, <2>5 DEF TypeOK
    <3>7. Guarded'
      <4> SUFFICES ASSUME NEW i \in Jobs, NEW r \in Safe', Waits(i, r)'
                   PROVE  jobs'[i].sql = Sql(r) /\ lock'[Sql(r)] = i
        BY <3>4 DEF Guarded
      <4>1. CASE i = j /\ r = q
        BY <3>3, <3>5, <4>1
      <4>2. CASE i # j /\ Waits(i, r)
        BY <2>1, <3>2, <3>4, <3>6, <4>2 DEF Guarded
      <4> QED
        BY <3>1, <4>1, <4>2
    <3>8. OnePending' /\ NonePending'
      BY <2>2, <2>3, <3>1, <3>4 DEF OnePending, NonePending
    <3> QED
      BY <1>0, <2>3, <3>7, <3>8 DEF BeforeIsOlder
  <2> QED
    BY <1>5, <2>1, <2>4, <2>5, EnqueueEffect DEF Enqueue
<1>6. ASSUME EmptyRead \/ EmptyWrite PROVE RefreshInv'
  BY <1>0, <1>6
  DEF EmptyRead, EmptyWrite, Waits, Guarded, OnePending, NonePending, BeforeIsOlder, Sql
<1>7. ASSUME NEW j \in Jobs, Start(j) PROVE RefreshInv'
  <2>1. \A i \in Jobs, r \in Queries : Waits(i, r)' => i # j /\ Waits(i, r) /\ jobs'[i] = jobs[i]
    BY <1>7 DEF Start, Waits, TypeOK
  <2>2. ASSUME NEW r \in Queries, r # jobs[j].query
        PROVE  executed'[r] = executed[r] /\ before'[r] = before[r]
    BY <1>7, <2>2 DEF Start
  <2>3. ASSUME NEW r \in Queries, r = jobs[j].query
        PROVE  /\ executed'[r] = 0 /\ before'[r] = executed[r]
               /\ Waits(j, r)
    BY <1>7, <2>3 DEF Start, Waits
  <2>4. UNCHANGED <<text, params, todo, lock, unguarded>>
    BY <1>7 DEF Start
  <2>5. Guarded'
    <3>1. Safe' = Safe /\ \A r \in Queries : Sql(r)' = Sql(r)
      BY <2>4 DEF Sql
    <3> SUFFICES ASSUME NEW i \in Jobs, NEW r \in Safe, Waits(i, r)'
                 PROVE  jobs'[i].sql = Sql(r) /\ lock[Sql(r)] = i
      BY <2>4, <3>1 DEF Guarded
    <3> QED
      BY <2>1 DEF Guarded
  <2>6. ASSUME NEW r \in Safe, r = jobs[j].query PROVE \A i \in Jobs : ~Waits(i, r)'
    BY <2>1, <2>3, <2>6, OneWaits
  <2>7. OnePending'
    BY <2>1, <2>2, <2>4, <2>6 DEF OnePending
  <2>8. NonePending'
    BY <2>1, <2>2, <2>3, <2>4, <2>6 DEF OnePending, NonePending
  <2>9. BeforeIsOlder'
    BY <2>2, <2>3 DEF BeforeIsOlder, TypeOK, Ages
  <2> QED
    BY <1>0, <2>5, <2>7, <2>8, <2>9
<1>8. ASSUME UNCHANGED <<text, params, todo>>,
             /\ \A r \in Queries : executed'[r] = executed[r] /\ before'[r] = before[r]
             /\ \A i \in Jobs, r \in Queries : Waits(i, r)' => Waits(i, r) /\ jobs'[i] = jobs[i],
             unguarded \subseteq unguarded',
             \A q \in Safe', j \in Jobs : \A s \in Sqls : Waits(j, q) /\ lock[s] = j => lock'[s] = j
      PROVE  RefreshInv'
  <2>1. \A r \in Queries : Sql(r)' = Sql(r) /\ Sql(r) \in Sqls
    BY <1>8 DEF Sql, Sqls, NoQuery, TypeOK
  <2>2. Safe' \subseteq Safe
    BY <1>8
  <2>3. Guarded'
    <3> SUFFICES ASSUME NEW i \in Jobs, NEW r \in Safe', Waits(i, r)'
                 PROVE  jobs'[i].sql = Sql(r) /\ lock'[Sql(r)] = i
      BY <2>1, <2>2 DEF Guarded
    <3>1. Waits(i, r) /\ jobs'[i] = jobs[i]
      BY <1>8
    <3>2. jobs[i].sql = Sql(r) /\ lock[Sql(r)] = i
      BY <2>2, <3>1 DEF Guarded
    <3> QED
      BY <1>8, <2>1, <3>1, <3>2
  <2>4. OnePending' /\ NonePending' /\ BeforeIsOlder'
    BY <1>8, <2>2 DEF OnePending, NonePending, BeforeIsOlder
  <2> QED
    BY <1>0, <2>3, <2>4
<1>9. ASSUME NEW j \in Jobs, Finish(j) PROVE RefreshInv'
  <2>1. \A i \in Jobs, r \in Queries : Waits(i, r)' => Waits(i, r) /\ jobs'[i] = jobs[i]
    <3>1. jobs'[j].state # "queued" /\ \A i \in Jobs : i # j => jobs'[i] = jobs[i]
      BY <1>9 DEF Finish, Unlock, Succeed, Fail, Free, TypeOK, Job, JobStates
    <3> QED
      BY <3>1 DEF Waits
  <2>2. UNCHANGED <<text, params, todo, executed, before>>
    BY <1>9 DEF Finish, Unlock, Succeed, Fail
  <2>3. CASE UNCHANGED <<lock, unguarded>>
    BY <1>8, <2>1, <2>2, <2>3
  <2>4. CASE DropLock(jobs[j].sql)
    <3>1. jobs[j].sql \in Sqls \cup {Never}
      BY DEF TypeOK, Job
    <3> QED
      BY <1>8, <2>1, <2>2, <2>4, <3>1, DropLockEffect
  <2> QED
    BY <1>9, <2>3, <2>4 DEF Finish, Unlock, Succeed, Fail
<1>10. ASSUME NEW sql \in Sqls, LockExpires(sql) PROVE RefreshInv'
  <2>1. UNCHANGED <<text, params, todo, executed, before, jobs>> /\ DropLock(sql)
    BY <1>10 DEF LockExpires
  <2>2. \A i \in Jobs, r \in Queries : Waits(i, r)' => Waits(i, r) /\ jobs'[i] = jobs[i]
    BY <2>1 DEF Waits
  <2> QED
    BY <1>8, <2>1, <2>2, DropLockEffect
<1>11. UNCHANGED vars => RefreshInv'
  BY <1>0 DEF vars, Waits, Guarded, OnePending, NonePending, BeforeIsOlder, Sql
<1> QED
  BY <1>1, <1>2, <1>3, <1>4, <1>5, <1>6, <1>7, <1>9, <1>10, <1>11 DEF Next, Refresher, Emptier

\* However snapshots, queueing, executions and manual runs interleave, a scheduled query starts at most
\* twice within its interval, unless its text has been edited or a job of it waits without the lock.
THEOREM StartsAreSpaced == Spec => []TypeOK /\ ThirdStartWaits
<1>1. Init => RefreshInv
  <2>1. Init => TypeOK
    <3> SUFFICES ASSUME Init PROVE TypeOK
      OBVIOUS
    <3>1. Free \in Job
      BY DEF Free, Job, JobStates, NoQuery
    <3>2. 0 \in Ages /\ Never \in Ages
      BY RefreshAssumption DEF Ages
    <3>3. schedule \in [Queries -> Schedules] /\ loaded \in [Queries -> Nat \cup {Never}]
      BY DEF Init, Schedules
    <3> QED
      BY <3>1, <3>2, <3>3, RefreshAssumption DEF Init, TypeOK
  <2> QED
    BY <2>1 DEF Init, RefreshInv, Guarded, OnePending, NonePending, BeforeIsOlder, Waits, Safe, Young, Free
<1>2. RefreshInv /\ [Next]_vars => RefreshInv'
  BY RefreshInvStep
<1>3. RefreshInv => TypeOK
  BY DEF RefreshInv
<1>4. RefreshInv /\ [Next]_vars
      => [\A j \in Jobs, q \in Queries \ unguarded :
            Start(j) /\ jobs[j].query = q /\ before[q] # Never => before[q] > Interval[q]]_vars
  <2> SUFFICES ASSUME RefreshInv, NEW j \in Jobs, NEW q \in Queries \ unguarded, Start(j), jobs[j].query = q,
                      before[q] # Never
               PROVE  before[q] > Interval[q]
    OBVIOUS
  <2>2. before[q] \in Nat /\ Interval[q] \in Nat
    <3>2. before[q] \in Ages
      BY DEF RefreshInv, TypeOK
    <3>3. before[q] \in 0 .. MaxAge
      BY <3>2 DEF Ages
    <3>4. 0 .. MaxAge \subseteq Nat
      BY RefreshAssumption
    <3> QED
      BY <3>3, <3>4, RefreshAssumption
  <2>3. ~Young(before[q], q)
    BY DEF RefreshInv, NonePending, Safe, Waits, Start
  <2> QED
    BY <2>2, <2>3 DEF Young
<1> QED
  BY <1>1, <1>2, <1>3, <1>4, PTL DEF Spec, ThirdStartWaits
==============================================================================
