----------------------------- MODULE AlertChecks -----------------------------
(***************************************************************************)
(* The alerts of ONE query.  An execution commits its result and then      *)
(* enqueues check_alerts_for_query (redash/tasks/alerts.py; QueryJobs has  *)
(* the executor's side), unless its horse is killed in between; workers    *)
(* check the alerts one after the other in a session that keeps what it    *)
(* has loaded until it commits; users create, edit, mute and delete alerts *)
(* (redash/handlers/alerts.py) and save the query with the result that     *)
(* their page has, which enqueues nothing, meanwhile.                      *)
(*                                                                         *)
(* A result is the value of the alerts' column in its first row.           *)
(***************************************************************************)
EXTENDS Integers

CONSTANTS Alerts,      \* ids of alerts
          Workers,     \* workers that check alerts
          Options,     \* what users save: records of a threshold, and whether the alert rearms and is muted
          Numbers,     \* the values looked at
          NoRow,       \* a result with no row, or without the column
          Null,        \* a null in the column, or no result at all: no alert can be evaluated
          Rearm,       \* the rearm time of an alert that has one
          MaxPending,  \* bound on the checks that wait or are about to be enqueued
          NotYet, Gone, NotLoaded, Never

ASSUME AlertsAssumption ==
  /\ Options \subseteq [threshold : Int, rearm : BOOLEAN, muted : BOOLEAN]
  /\ Numbers \subseteq Int /\ NoRow \notin Int /\ Null \notin Int /\ NoRow # Null
  /\ Rearm \in Nat /\ MaxPending \in Nat
  /\ Never \notin Nat

Results == Numbers \cup {NoRow, Null}
States == {"unknown", "ok", "triggered"}
Ages == 0 .. Rearm + 1 \cup {Never}       \* of last_triggered_at
Alert == [options : Options, state : States, age : Ages]
Row == Alert \cup {NotYet, Gone}

ASSUME MarkersAssumption ==
  /\ NotYet \notin Alert /\ Gone \notin Alert /\ NotYet # Gone
  /\ NotLoaded \notin Row /\ NotLoaded \notin Alerts /\ NotLoaded \notin Results

VARIABLES result,      \* the query's latest result
          owed,        \* number of executors that have committed a result and not enqueued its check
          pending,     \* number of checks in the queue
          alerts,      \* the committed alerts
          pc,          \* per worker: where its check is
          todo,        \* per worker: the alerts it has yet to look at
          current,     \* per worker: the alert it writes or notifies
          value,       \* per worker: the result in its session
          copies,      \* per worker: the alerts in its session
          new,         \* per worker: new_state
          told,        \* per alert: what its subscribers last heard (history variable)
          disturbed,   \* alerts edited, or not checked, since the last check began (history variable)
          overlap,     \* the last check began while another one ran (history variable)
          unchecked    \* since then a result was set, or lost its check, without a check (history variable)

check   == <<pc, todo, current, value, copies, new>>
results == <<result, owed, pending>>
history == <<told, disturbed, overlap, unchecked>>
vars    == <<results, alerts, check, history>>

Existing == {a \in Alerts : alerts[a] \notin {NotYet, Gone}}
Running == {w \in Workers : pc[w] # "idle"}

TypeOK ==
  /\ result \in Results /\ owed \in Nat /\ pending \in Nat /\ owed + pending <= MaxPending
  /\ alerts \in [Alerts -> Row]
  /\ pc \in [Workers -> {"idle", "check", "write", "notify"}]
  /\ todo \in [Workers -> SUBSET Alerts] /\ current \in [Workers -> Alerts \cup {NotLoaded}]
  /\ value \in [Workers -> Results \cup {NotLoaded}]
  /\ copies \in [Workers -> [Alerts -> Row \cup {NotLoaded}]]
  /\ new \in [Workers -> States]
  /\ told \in [Alerts -> States \cup {"nothing", "muted", "lost"}]
  /\ disturbed \subseteq Alerts /\ overlap \in BOOLEAN /\ unchecked \in BOOLEAN

Expired == [a \in Alerts |-> NotLoaded]

Init ==
  /\ result \in Results /\ owed = 0 /\ pending = 0
  /\ alerts = [a \in Alerts |-> NotYet]
  /\ pc = [w \in Workers |-> "idle"] /\ todo = [w \in Workers |-> {}]
  /\ current = [w \in Workers |-> NotLoaded] /\ value = [w \in Workers |-> NotLoaded]
  /\ copies = [w \in Workers |-> Expired] /\ new = [w \in Workers |-> "unknown"]
  /\ told = [a \in Alerts |-> "nothing"] /\ disturbed = Alerts
  /\ overlap = FALSE /\ unchecked = FALSE

(***************************************************************************)
(* The executor and the clock.                                             *)
(***************************************************************************)
\* The result is committed, "to make sure that alert sees the latest query result".
NewResult(r) ==
  /\ owed + pending < MaxPending
  /\ result' = r /\ owed' = owed + 1
  /\ UNCHANGED <<pending, alerts, check, history>>

Delay ==
  /\ owed > 0 /\ owed' = owed - 1
  /\ pending' = pending + 1
  /\ UNCHANGED <<result, alerts, check, history>>

\* The horse is killed after its commit.
ExecutorKilled ==
  /\ owed > 0 /\ owed' = owed - 1
  /\ unchecked' = TRUE
  /\ UNCHANGED <<result, pending, alerts, check, told, disturbed, overlap>>

Older(t) == IF t \in {Never, Rearm + 1} THEN t ELSE t + 1

Tick ==
  /\ alerts' = [a \in Alerts |-> IF a \in Existing THEN [alerts[a] EXCEPT !.age = Older(@)] ELSE alerts[a]]
  /\ UNCHANGED <<results, check, history>>

(***************************************************************************)
(* Users.                                                                  *)
(***************************************************************************)
Create(a, o) ==
  /\ alerts[a] = NotYet
  /\ alerts' = [alerts EXCEPT ![a] = [options |-> o, state |-> "unknown", age |-> Never]]
  /\ disturbed' = disturbed \cup {a}
  /\ UNCHANGED <<results, check, told, overlap, unchecked>>

\* AlertResource.post and AlertMuteResource write the whole options, so an edit also writes the
\* muted flag its page was opened with.  The state is left as it is.
Edit(a, o) ==
  /\ a \in Existing
  /\ alerts' = [alerts EXCEPT ![a].options = o]
  /\ disturbed' = disturbed \cup {a}
  /\ UNCHANGED <<results, check, told, overlap, unchecked>>

Delete(a) ==
  /\ a \in Existing
  /\ alerts' = [alerts EXCEPT ![a] = Gone]
  /\ UNCHANGED <<results, check, history>>

\* QueryResource.post with all of the query: latest_query_data_id is what the page shows, or null.
SaveQuery(r) ==
  /\ r # result /\ result' = r
  /\ unchecked' = TRUE
  /\ UNCHANGED <<owed, pending, alerts, check, told, disturbed, overlap>>

(***************************************************************************)
(* check_alerts_for_query.                                                 *)
(***************************************************************************)
\* The query is loaded, and with query.alerts all of its alerts.
Begin(w) ==
  /\ pc[w] = "idle" /\ pending > 0 /\ pending' = pending - 1
  /\ pc' = [pc EXCEPT ![w] = "check"]
  /\ todo' = [todo EXCEPT ![w] = Existing]
  /\ value' = [value EXCEPT ![w] = result] /\ copies' = [copies EXCEPT ![w] = alerts]
  /\ disturbed' = {} /\ overlap' = (Running # {}) /\ unchecked' = FALSE
  /\ told' = IF Running = {} THEN told ELSE [a \in Alerts |-> "lost"]
  /\ UNCHANGED <<result, owed, alerts, current, new>>

\* Alert.evaluate and next_state, for one operator, ">".
Outcome(v, n) == IF v = NoRow THEN "unknown" ELSE IF v > n THEN "triggered" ELSE "ok"

\* Mutants: a muted alert is not looked at; an alert that is ok is rearmed, too.
ShouldNotifyUnmuted(row, s) ==
  ~row.options.muted /\ (s # row.state \/ (row.state = "triggered" /\ row.options.rearm /\ row.age = Rearm + 1))
ShouldNotifyAny(row, s) == s # row.state \/ (row.options.rearm /\ row.age = Rearm + 1)

ShouldNotify(row, s) ==
  s # row.state \/ (row.state = "triggered" /\ row.options.rearm /\ row.age = Rearm + 1)

\* What the session sees: what it holds, or the database.
Seen(w, a) == IF copies[w][a] = NotLoaded THEN alerts[a] ELSE copies[w][a]
SeenResult(w) == IF value[w] = NotLoaded THEN result ELSE value[w]

Evaluate(w, a) ==
  LET row == Seen(w, a)
      s == Outcome(SeenResult(w), row.options.threshold)
  IN /\ pc[w] = "check" /\ a \in todo[w] /\ row # Gone /\ SeenResult(w) # Null
     /\ todo' = [todo EXCEPT ![w] = @ \ {a}]
     /\ value' = [value EXCEPT ![w] = SeenResult(w)]
     /\ IF ShouldNotify(row, s)
          THEN /\ pc' = [pc EXCEPT ![w] = "write"]
               /\ current' = [current EXCEPT ![w] = a] /\ new' = [new EXCEPT ![w] = s]
               /\ copies' = [copies EXCEPT ![w][a] = row]
          ELSE UNCHANGED <<pc, current, new, copies>>
     /\ UNCHANGED <<results, alerts, history>>

\* Mutant: no alert that was unknown is notified.
SkippedUnknown(old, s) == old = "unknown"

\* No notification when the state was unknown and is ok.
Skipped(old, s) == old = "unknown" /\ s = "ok"

\* State and last_triggered_at are committed, which expires the session.
Write(w) ==
  LET a == current[w]
      old == copies[w][a].state
  IN /\ pc[w] = "write" /\ a \in Existing
     /\ alerts' = [alerts EXCEPT ![a].age = 0, ![a].state = IF new[w] # old THEN new[w] ELSE @]
     /\ value' = [value EXCEPT ![w] = NotLoaded] /\ copies' = [copies EXCEPT ![w] = Expired]
     /\ pc' = [pc EXCEPT ![w] = IF Skipped(old, new[w]) THEN "check" ELSE "notify"]
     /\ UNCHANGED <<results, todo, current, new, history>>

\* The alert is read again; the exceptions of destinations are only logged.
Notify(w) ==
  LET a == current[w] IN
  /\ pc[w] = "notify" /\ a \in Existing
  /\ told' = [told EXCEPT ![a] = IF alerts[a].options.muted THEN "muted" ELSE IF overlap THEN "lost" ELSE new[w]]
  /\ pc' = [pc EXCEPT ![w] = "check"]
  /\ UNCHANGED <<results, alerts, todo, current, value, copies, new, disturbed, overlap, unchecked>>

\* The job is over, and with it its session and its variables.
Forget(w) ==
  /\ pc' = [pc EXCEPT ![w] = "idle"] /\ todo' = [todo EXCEPT ![w] = {}]
  /\ current' = [current EXCEPT ![w] = NotLoaded] /\ new' = [new EXCEPT ![w] = "unknown"]
  /\ value' = [value EXCEPT ![w] = NotLoaded] /\ copies' = [copies EXCEPT ![w] = Expired]
  /\ UNCHANGED <<results, alerts>>

End(w) == pc[w] = "check" /\ todo[w] = {} /\ Forget(w) /\ UNCHANGED history

\* The job ends before its time, and the alerts it has not come to stay unchecked.
Leave(w) ==
  /\ Forget(w)
  /\ disturbed' = Alerts
  /\ told' = IF pc[w] = "notify" THEN [told EXCEPT ![current[w]] = "lost"] ELSE told
  /\ UNCHANGED <<overlap, unchecked>>

\* float(None) is a TypeError, which next_state does not catch; a row that was deleted cannot be
\* refreshed or updated.
Raise(w) ==
  /\ \/ \E a \in todo[w] : pc[w] = "check" /\ (Seen(w, a) = Gone \/ SeenResult(w) = Null)
     \/ pc[w] \in {"write", "notify"} /\ current[w] \notin Existing
  /\ Leave(w)

\* The limit of 300 seconds, or a worker that dies.
Killed(w) == pc[w] # "idle" /\ Leave(w)

User ==
  \/ \E a \in Alerts : Delete(a) \/ \E o \in Options : Create(a, o) \/ Edit(a, o)
  \/ \E r \in Results : SaveQuery(r)

Executor == Delay \/ ExecutorKilled \/ \E r \in Results : NewResult(r)

Worker(w) ==
  Begin(w) \/ (\E a \in Alerts : Evaluate(w, a)) \/ Write(w) \/ Notify(w) \/ End(w) \/ Raise(w) \/ Killed(w)

Next == Tick \/ User \/ Executor \/ \E w \in Workers : Worker(w)

Spec == Init /\ [][Next]_vars

(***************************************************************************)
(* Properties.  Two checks that overlap act on the same state; then "lost" *)
(* stands for what subscribers heard, until the next notification.         *)
(***************************************************************************)
\* When nothing is left to check, an alert that was not edited since has the state of the latest
\* result, although checks name the query and not the result and keep what they loaded.  Excepted are
\* checks that overlapped, and until the next check begins a result that got none: the one that a page
\* saved with its query, and the one whose executor was killed between its commit and the check.
StateIsCurrent ==
  owed = 0 /\ pending = 0 /\ Running = {} /\ ~overlap /\ ~unchecked =>
    \A a \in Existing \ disturbed : alerts[a].state = Outcome(result, alerts[a].options.threshold)

\* Subscribers know the state, unless it changed while the alert was muted, the check died between its
\* commit and the notification, or an alert without a state became ok.
SubscribersKnow ==
  \A a \in Existing :
    \/ \E w \in Running : pc[w] = "notify" /\ current[w] = a
    \/ told[a] \in {alerts[a].state, "muted", "lost"}
    \/ told[a] \in {"nothing", "unknown"} /\ alerts[a].state \in {"unknown", "ok"}

\* They hear the same state again only of a triggered alert that rearms (and of one that lost its state,
\* became ok, which is not told, and lost it again).
RepeatsOnlyRearmed ==
  [][\A w \in Workers : Notify(w) /\ told'[current[w]] = new[w] /\ told[current[w]] = new[w] =>
       \/ new[w] = "triggered" /\ (alerts[current[w]].options.rearm \/ current[w] \in disturbed)
       \/ new[w] = "unknown"]_vars
==============================================================================
