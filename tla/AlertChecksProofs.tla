-------------------------- MODULE AlertChecksProofs --------------------------
(***************************************************************************)
(* Proofs about AlertChecks, for any number of alerts, workers and waiting *)
(* checks, any options, values and rearm time.                             *)
(***************************************************************************)
EXTENDS AlertChecks, TLAPS

LEMMA RowsOfExisting ==
  ASSUME TypeOK, NEW a \in Existing
  PROVE  a \in Alerts /\ alerts[a] \in Alert
BY DEF TypeOK, Existing, Row

LEMMA OlderRow ==
  ASSUME NEW row \in Alert
  PROVE  [row EXCEPT !.age = Older(@)] \in Alert
<1>1. row.age \in Ages
  BY DEF Alert
<1>2. Older(row.age) \in Ages
  BY <1>1, AlertsAssumption DEF Older, Ages
<1> QED
  BY <1>2 DEF Alert

\* The types are preserved by every step.
LEMMA AlertTypes == TypeOK /\ [Next]_vars => TypeOK'
<1> SUFFICES ASSUME TypeOK, [Next]_vars PROVE TypeOK'
  OBVIOUS
<1> USE AlertsAssumption DEF TypeOK, check, results, history
<1>1. ASSUME Executor \/ \E r \in Results : SaveQuery(r) PROVE TypeOK'
  <2>1. CASE \E r \in Results : NewResult(r)
    BY <2>1 DEF NewResult
  <2>2. CASE Delay \/ ExecutorKilled
    <3>1. /\ owed > 0 /\ owed' = owed - 1 /\ pending' \in {pending, pending + 1}
          /\ UNCHANGED <<result, alerts, check, told, disturbed, overlap>>
      BY <2>2 DEF Delay, ExecutorKilled
    <3>2. owed' \in Nat /\ pending' \in Nat /\ owed' + pending' <= MaxPending
      <4> HIDE DEF TypeOK
      <4>1. owed \in Nat /\ pending \in Nat /\ owed + pending <= MaxPending /\ MaxPending \in Nat
        BY DEF TypeOK
      <4>2. CASE pending' = pending
        BY <3>1, <4>1, <4>2
      <4>3. CASE pending' = pending + 1
        BY <3>1, <4>1, <4>3
      <4> QED
        BY <3>1, <4>2, <4>3
    <3>3. unchecked' \in BOOLEAN
      BY <2>2 DEF Delay, ExecutorKilled
    <3> QED
      BY <3>1, <3>2, <3>3
  <2>3. CASE \E r \in Results : SaveQuery(r)
    BY <2>3 DEF SaveQuery
  <2> QED
    BY <1>1, <2>1, <2>2, <2>3 DEF Executor
<1>2. CASE Tick
  <2>1. ASSUME NEW a \in Existing PROVE [alerts[a] EXCEPT !.age = Older(@)] \in Alert
    BY RowsOfExisting, OlderRow
  <2> QED
    BY <1>2, <2>1 DEF Tick, Row
<1>3. ASSUME NEW a \in Alerts, NEW o \in Options, Create(a, o) PROVE TypeOK'
  <2>1. [options |-> o, state |-> "unknown", age |-> Never] \in Alert
    BY DEF Alert, States, Ages
  <2> QED
    BY <1>3, <2>1 DEF Create, Row
<1>4. ASSUME NEW a \in Alerts, NEW o \in Options, Edit(a, o) PROVE TypeOK'
  <2>1. [alerts[a] EXCEPT !.options = o] \in Alert
    BY <1>4, RowsOfExisting DEF Edit, Alert
  <2> QED
    BY <1>4, <2>1 DEF Edit, Row
<1>5. ASSUME NEW a \in Alerts, Delete(a) PROVE TypeOK'
  BY <1>5 DEF Delete, Row
<1>6. ASSUME NEW w \in Workers, Begin(w) PROVE TypeOK'
  <2>1. pending' \in Nat /\ owed' + pending' <= MaxPending
    BY <1>6 DEF Begin
  <2>2. /\ UNCHANGED <<result, owed, alerts, current, new>> /\ unchecked' \in BOOLEAN /\ disturbed' \subseteq Alerts
        /\ pc' \in [Workers -> {"idle", "check", "write", "notify"}] /\ value' \in [Workers -> Results \cup {NotLoaded}]
    BY <1>6 DEF Begin
  <2>3. todo' \in [Workers -> SUBSET Alerts] /\ copies' \in [Workers -> [Alerts -> Row \cup {NotLoaded}]]
    BY <1>6 DEF Begin, Existing
  <2>4. told' \in [Alerts -> States \cup {"nothing", "muted", "lost"}] /\ overlap' \in BOOLEAN
    BY <1>6 DEF Begin
  <2> QED
    BY <2>1, <2>2, <2>3, <2>4
<1>7. ASSUME NEW w \in Workers, NEW a \in Alerts, Evaluate(w, a) PROVE TypeOK'
  <2>1. Seen(w, a) \in Row /\ SeenResult(w) \in Results
    BY DEF Seen, SeenResult
  <2>2. Outcome(SeenResult(w), Seen(w, a).options.threshold) \in States
    BY DEF Outcome, States
  <2>3. todo' \in [Workers -> SUBSET Alerts] /\ value' \in [Workers -> Results \cup {NotLoaded}]
    BY <1>7, <2>1 DEF Evaluate
  <2>4. CASE UNCHANGED <<pc, current, new, copies>>
    BY <1>7, <2>3, <2>4 DEF Evaluate
  <2>5. CASE ShouldNotify(Seen(w, a), Outcome(SeenResult(w), Seen(w, a).options.threshold))
    <3>1. pc' = [pc EXCEPT ![w] = "write"] /\ current' = [current EXCEPT ![w] = a]
      BY <1>7, <2>5 DEF Evaluate
    <3>2. /\ new' = [new EXCEPT ![w] = Outcome(SeenResult(w), Seen(w, a).options.threshold)]
          /\ copies' = [copies EXCEPT ![w][a] = Seen(w, a)]
      BY <1>7, <2>5 DEF Evaluate
    <3>3. new' \in [Workers -> States] /\ copies' \in [Workers -> [Alerts -> Row \cup {NotLoaded}]]
      BY <2>1, <2>2, <3>2
    <3> QED
      BY <1>7, <2>3, <3>1, <3>3 DEF Evaluate
  <2> QED
    BY <1>7, <2>4, <2>5 DEF Evaluate
<1>8. ASSUME NEW w \in Workers, Write(w) PROVE TypeOK'
  <2>1. PICK a \in Existing : a = current[w]
    BY <1>8 DEF Write
  <2>2. a \in Alerts /\ alerts[a] \in Alert
    BY <2>1, RowsOfExisting
  <2>3. 0 \in Ages
    BY DEF Ages
  <2>4. ASSUME NEW s \in States PROVE [alerts EXCEPT ![a].age = 0, ![a].state = s] \in [Alerts -> Row]
    BY <2>2, <2>3 DEF Alert, Row
  <2>5. alerts' \in [Alerts -> Row]
    BY <1>8, <2>1, <2>2, <2>4 DEF Write, Alert
  <2> QED
    BY <1>8, <2>5 DEF Write, Expired
<1>9. ASSUME NEW w \in Workers, Notify(w) PROVE TypeOK'
  BY <1>9 DEF Notify, States
<1>10. ASSUME NEW w \in Workers, Forget(w), told' \in [Alerts -> States \cup {"nothing", "muted", "lost"}],
              disturbed' \subseteq Alerts, overlap' \in BOOLEAN, unchecked' \in BOOLEAN
       PROVE  TypeOK'
  BY <1>10 DEF Forget, Expired, States
<1>11. ASSUME NEW w \in Workers, End(w) \/ Raise(w) \/ Killed(w) PROVE TypeOK'
  BY <1>10, <1>11 DEF End, Raise, Killed, Leave
<1>12. CASE UNCHANGED vars
  BY <1>12 DEF vars
<1> QED
  BY <1>1, <1>2, <1>3, <1>4, <1>5, <1>6, <1>7, <1>8, <1>9, <1>11, <1>12 DEF Next, User, Worker

(***************************************************************************)
(* What subscribers know.                                                  *)
(***************************************************************************)
\* One check at a time, unless the last one began during another.
Sole == ~overlap => \A v, w \in Running : v = w

\* While checks overlap nothing is said of what subscribers heard.
Voided == overlap => \A a \in Alerts : told[a] \in {"muted", "lost"}

\* Nobody hears of an alert before it is created.
Untold == \A a \in Alerts : alerts[a] = NotYet => told[a] \in {"nothing", "lost"}

\* Checks handle alerts that have been created.
Created ==
  \A w \in Workers :
    /\ \A a \in todo[w] : alerts[a] # NotYet
    /\ pc[w] \in {"write", "notify"} => current[w] \in Alerts /\ alerts[current[w]] # NotYet

\* What the session of a check alone holds of an alert has the alert's state, and a state that was committed
\* is the one that is about to be told.
Synced ==
  ~overlap => \A w \in Running :
    /\ \A a \in todo[w] \cap Existing : copies[w][a] # NotLoaded => copies[w][a].state = alerts[a].state
    /\ pc[w] = "write" /\ current[w] \in Existing => copies[w][current[w]].state = alerts[current[w]].state
    /\ pc[w] = "notify" /\ current[w] \in Existing => new[w] = alerts[current[w]].state

ToldInv == TypeOK /\ Sole /\ Voided /\ Untold /\ Created /\ Synced /\ SubscribersKnow

LEMMA ToldInvStep ==
  ASSUME ToldInv, [Next]_vars
  PROVE  ToldInv'
<1>0. TypeOK'
  BY AlertTypes DEF ToldInv
<1> USE AlertsAssumption, MarkersAssumption DEF ToldInv, check, results, history
<1>1. ASSUME Executor \/ \E r \in Results : SaveQuery(r) PROVE ToldInv'
  <2>1. UNCHANGED <<alerts, check, told, disturbed, overlap>>
    BY <1>1 DEF Executor, NewResult, Delay, ExecutorKilled, SaveQuery
  <2> QED
    BY <1>0, <2>1 DEF Sole, Voided, Untold, Created, Synced, SubscribersKnow, Running, Existing
<1>2. CASE Tick
  <2>1. UNCHANGED <<pc, todo, current, value, copies, new, told, disturbed, overlap>>
    BY <1>2 DEF Tick
  <2>2. /\ Existing' = Existing /\ \A a \in Existing : alerts'[a].state = alerts[a].state
        /\ \A a \in Alerts : alerts'[a] = NotYet <=> alerts[a] = NotYet
    <3>1. ASSUME NEW a \in Existing
          PROVE  alerts'[a] \notin {NotYet, Gone} /\ alerts'[a].state = alerts[a].state
      <4>1. a \in Alerts /\ alerts[a] \in Alert /\ alerts'[a] = [alerts[a] EXCEPT !.age = Older(@)]
        BY <1>2, RowsOfExisting DEF Tick
      <4> QED
        BY <4>1, OlderRow DEF Alert
    <3>2. ASSUME NEW a \in Alerts \ Existing PROVE alerts'[a] = alerts[a]
      BY <1>2, <3>2 DEF Tick
    <3> QED
      BY <3>1, <3>2 DEF Existing
  <2>3. Running' = Running
    BY <2>1 DEF Running
  <2>4. Sole' /\ Voided' /\ Untold' /\ Created'
    BY <2>1, <2>2, <2>3 DEF Sole, Voided, Untold, Created, TypeOK
  <2>5. Synced'
    BY <2>1, <2>2, <2>3 DEF Synced
  <2>6. SubscribersKnow'
    BY <2>1, <2>2, <2>3 DEF SubscribersKnow
  <2> QED
    BY <1>0, <2>4, <2>5, <2>6
<1>3. ASSUME NEW a \in Alerts, NEW o \in Options, Create(a, o) PROVE ToldInv'
  <2>1. /\ alerts[a] = NotYet /\ alerts' = [alerts EXCEPT ![a] = [options |-> o, state |-> "unknown", age |-> Never]]
        /\ UNCHANGED <<pc, todo, current, value, copies, new, told, overlap>>
    BY <1>3 DEF Create
  <2>2. [options |-> o, state |-> "unknown", age |-> Never] \in Alert
    BY DEF Alert, States, Ages
  <2>3. Existing' = Existing \cup {a} /\ alerts'[a].state = "unknown" /\ \A b \in Alerts \ {a} : alerts'[b] = alerts[b]
    BY <2>1, <2>2 DEF Existing, TypeOK
  <2>4. Running' = Running
    BY <2>1 DEF Running
  <2>5. Sole' /\ Voided' /\ Untold' /\ Created'
    BY <2>1, <2>2, <2>3, <2>4 DEF Sole, Voided, Untold, Created, TypeOK
  <2>6. \A w \in Workers : a \notin todo[w] /\ (pc[w] \in {"write", "notify"} => current[w] \in Alerts \ {a})
    BY <2>1 DEF Created
  <2>7. Synced'
    BY <2>1, <2>3, <2>4, <2>6 DEF Synced, Running, Existing
  <2>8. SubscribersKnow'
    BY <2>1, <2>3, <2>4 DEF SubscribersKnow, Untold, Existing
  <2> QED
    BY <1>0, <2>5, <2>7, <2>8
<1>4. ASSUME NEW a \in Alerts, NEW o \in Options, Edit(a, o) PROVE ToldInv'
  <2>1. /\ a \in Existing /\ alerts' = [alerts EXCEPT ![a] = [@ EXCEPT !.options = o]]
        /\ UNCHANGED <<pc, todo, current, value, copies, new, told, overlap>>
    BY <1>4 DEF Edit
  <2>2. alerts[a] \in Alert /\ [alerts[a] EXCEPT !.options = o] \in Alert
    BY <2>1, RowsOfExisting DEF Alert
  <2>3. /\ Existing' = Existing /\ \A b \in Existing : alerts'[b].state = alerts[b].state
        /\ \A b \in Alerts : alerts'[b] = NotYet <=> alerts[b] = NotYet
    BY <2>1, <2>2 DEF Existing, TypeOK, Alert
  <2>4. Running' = Running
    BY <2>1 DEF Running
  <2>5. Sole' /\ Voided' /\ Untold' /\ Created'
    BY <2>1, <2>3, <2>4 DEF Sole, Voided, Untold, Created, TypeOK
  <2>6. Synced'
    BY <2>1, <2>3, <2>4 DEF Synced
  <2>7. SubscribersKnow'
    BY <2>1, <2>3, <2>4 DEF SubscribersKnow
  <2> QED
    BY <1>0, <2>5, <2>6, <2>7
<1>5. ASSUME NEW a \in Alerts, Delete(a) PROVE ToldInv'
  <2>1. /\ alerts' = [alerts EXCEPT ![a] = Gone]
        /\ UNCHANGED <<pc, todo, current, value, copies, new, told, overlap>>
    BY <1>5 DEF Delete
  <2>2. Existing' \subseteq Existing /\ \A b \in Existing' : alerts'[b] = alerts[b]
    BY <2>1 DEF Existing, TypeOK
  <2>3. Running' = Running
    BY <2>1 DEF Running
  <2>4. Sole' /\ Voided' /\ Untold' /\ Created'
    BY <2>1, <2>3 DEF Sole, Voided, Untold, Created, TypeOK
  <2>5. Synced'
    BY <2>1, <2>2, <2>3 DEF Synced
  <2>6. SubscribersKnow'
    BY <2>1, <2>2, <2>3 DEF SubscribersKnow
  <2> QED
    BY <1>0, <2>4, <2>5, <2>6
<1>6. ASSUME NEW w \in Workers, Begin(w) PROVE ToldInv'
  <2>1. /\ pc[w] = "idle" /\ pc' = [pc EXCEPT ![w] = "check"] /\ todo' = [todo EXCEPT ![w] = Existing]
        /\ copies' = [copies EXCEPT ![w] = alerts] /\ overlap' = (Running # {})
        /\ told' = IF Running = {} THEN told ELSE [a \in Alerts |-> "lost"]
        /\ UNCHANGED <<alerts, current, new>>
    BY <1>6 DEF Begin
  <2>2. Running' = Running \cup {w} /\ Existing' = Existing
    BY <2>1 DEF Running, Existing, TypeOK
  <2>3. Sole' /\ Voided' /\ Untold'
    BY <2>1, <2>2 DEF Sole, Voided, Untold, TypeOK
  <2>4. Created'
    BY <2>1 DEF Created, Existing, TypeOK
  <2>5. Synced'
    BY <2>1, <2>2 DEF Synced, TypeOK
  <2>6. SubscribersKnow'
    <3>1. CASE Running = {}
      BY <2>1, <2>2, <3>1 DEF SubscribersKnow
    <3>2. CASE Running # {}
      BY <2>1, <2>2, <3>2 DEF SubscribersKnow, Existing
    <3> QED
      BY <3>1, <3>2
  <2> QED
    BY <1>0, <2>3, <2>4, <2>5, <2>6
<1>7. ASSUME NEW w \in Workers, NEW a \in Alerts, Evaluate(w, a) PROVE ToldInv'
  <2>1. /\ pc[w] = "check" /\ a \in todo[w] /\ todo' = [todo EXCEPT ![w] = @ \ {a}]
        /\ UNCHANGED <<alerts, told, overlap>>
    BY <1>7 DEF Evaluate
  <2>2. \/ UNCHANGED <<pc, current, new, copies>>
        \/ /\ pc' = [pc EXCEPT ![w] = "write"] /\ current' = [current EXCEPT ![w] = a]
           /\ copies' = [copies EXCEPT ![w][a] = Seen(w, a)]
           /\ \A v \in Workers \ {w} : new'[v] = new[v]
    BY <1>7 DEF Evaluate, TypeOK
  <2>3. Running' = Running /\ Existing' = Existing /\ w \in Running
    BY <2>1, <2>2 DEF Running, Existing, TypeOK
  <2>4. Sole' /\ Voided' /\ Untold' /\ Created'
    BY <2>1, <2>2, <2>3 DEF Sole, Voided, Untold, Created, TypeOK
  <2>5. Synced'
    <3>1. CASE UNCHANGED <<pc, current, new, copies>>
      BY <2>1, <2>3, <3>1 DEF Synced, TypeOK
    <3>2. CASE /\ pc' = [pc EXCEPT ![w] = "write"] /\ current' = [current EXCEPT ![w] = a]
               /\ copies' = [copies EXCEPT ![w][a] = Seen(w, a)]
      <4>1. ~overlap /\ a \in Existing => Seen(w, a).state = alerts[a].state
        BY <2>1, <2>3 DEF Synced, Seen
      <4>2. pc'[w] = "write" /\ current'[w] = a /\ copies'[w][a] = Seen(w, a) /\ todo'[w] = todo[w] \ {a}
        BY <2>1, <3>2 DEF TypeOK
      <4>3. \A b \in Alerts \ {a} : copies'[w][b] = copies[w][b]
        BY <3>2 DEF TypeOK
      <4>4. ~overlap => Running = {w}
        BY <2>3 DEF Sole
      <4> QED
        BY <2>1, <2>3, <4>1, <4>2, <4>3, <4>4 DEF Synced, TypeOK
    <3> QED
      BY <2>2, <3>1, <3>2
  <2>6. \A v \in Workers : pc[v] = "notify" => pc'[v] = "notify" /\ current'[v] = current[v]
    BY <2>1, <2>2 DEF TypeOK
  <2>7. SubscribersKnow'
    BY <2>1, <2>3, <2>6 DEF SubscribersKnow, Running
  <2> QED
    BY <1>0, <2>4, <2>5, <2>7
<1>8. ASSUME NEW w \in Workers, Write(w) PROVE ToldInv'
  <2>1. PICK a \in Existing : a = current[w]
    BY <1>8 DEF Write
  <2>2. /\ pc[w] = "write" /\ copies' = [copies EXCEPT ![w] = Expired]
        /\ pc' = [pc EXCEPT ![w] = IF Skipped(copies[w][a].state, new[w]) THEN "check" ELSE "notify"]
        /\ alerts' = [alerts EXCEPT ![a].age = 0,
                                    ![a].state = IF new[w] # copies[w][a].state THEN new[w] ELSE @]
        /\ UNCHANGED <<todo, current, new, told, overlap>>
    BY <1>8, <2>1 DEF Write
  <2>3. a \in Alerts /\ alerts[a] \in Alert
    BY <2>1, RowsOfExisting
  <2>4. /\ alerts'[a].state = IF new[w] # copies[w][a].state THEN new[w] ELSE alerts[a].state
        /\ \A b \in Alerts \ {a} : alerts'[b] = alerts[b]
    BY <2>2, <2>3 DEF Alert, TypeOK
  <2>5. alerts'[a] \in Alert
    <3>1. 0 \in Ages /\ new[w] \in States
      BY DEF Ages, TypeOK
    <3> QED
      BY <2>2, <2>3, <3>1 DEF Alert, TypeOK
  <2>6. Existing' = Existing /\ Running' = Running /\ w \in Running
    BY <2>2, <2>3, <2>4, <2>5 DEF Existing, Running, TypeOK
  <2>7. /\ pc'[w] = IF Skipped(copies[w][a].state, new[w]) THEN "check" ELSE "notify"
        /\ \A v \in Workers \ {w} : pc'[v] = pc[v]
        /\ \A b \in Alerts : copies'[w][b] = NotLoaded
    BY <2>2 DEF TypeOK, Expired
  <2>8. Sole' /\ Voided' /\ Untold'
    BY <2>2, <2>4, <2>5, <2>6 DEF Sole, Voided, Untold
  <2>9. Created'
    <3>1. \A b \in Alerts : alerts'[b] = NotYet => alerts[b] = NotYet
      BY <2>4, <2>5
    <3>2. \A v \in Workers : pc'[v] \in {"write", "notify"} => pc[v] \in {"write", "notify"}
      BY <2>2, <2>7
    <3> QED
      BY <2>2, <3>1, <3>2 DEF Created, TypeOK
  <2>10. ~overlap => Running = {w} /\ copies[w][a].state = alerts[a].state
    BY <2>1, <2>2, <2>6 DEF Sole, Synced
  <2>11. Synced'
    <3>1. ASSUME ~overlap PROVE new[w] = alerts'[a].state
      BY <2>4, <2>10, <3>1
    <3>2. \A b \in todo[w] \cap Existing : copies'[w][b] = NotLoaded
      BY <2>7 DEF TypeOK
    <3>3. pc'[w] # "write"
      BY <2>7
    <3>4. ~overlap => Running' = {w} /\ todo'[w] = todo[w] /\ current'[w] = a /\ new'[w] = new[w]
      BY <2>1, <2>2, <2>6, <2>10
    <3>5. overlap' = overlap /\ Existing' = Existing
      BY <2>2, <2>6
    <3> QED
      BY <3>1, <3>2, <3>3, <3>4, <3>5 DEF Synced
  <2>12. ASSUME NEW b \in Existing PROVE
           \/ \E v \in Running' : pc'[v] = "notify" /\ current'[v] = b
           \/ told'[b] \in {alerts'[b].state, "muted", "lost"}
           \/ told'[b] \in {"nothing", "unknown"} /\ alerts'[b].state \in {"unknown", "ok"}
    <3>1. CASE b # a
      <4>1. b \in Alerts \ {a} /\ alerts'[b] = alerts[b]
        BY <2>4, <3>1 DEF Existing
      <4>2. \A v \in Running : pc[v] = "notify" => pc'[v] = "notify"
        BY <2>2, <2>7 DEF Running
      <4> QED
        BY <2>2, <2>6, <4>1, <4>2 DEF SubscribersKnow
    <3>2. CASE b = a /\ pc'[w] = "notify"
      BY <2>1, <2>2, <2>6, <3>2
    <3>3. CASE b = a /\ overlap
      BY <2>2, <2>3, <3>3 DEF Voided
    <3>4. CASE b = a /\ ~overlap /\ pc'[w] = "check"
      <4>1. copies[w][a].state = "unknown" /\ new[w] = "ok"
        BY <2>7, <3>4 DEF Skipped
      <4>2. alerts[a].state = "unknown" /\ alerts'[a].state = "ok"
        BY <2>4, <2>10, <3>4, <4>1
      <4>3. ~ \E v \in Running : pc[v] = "notify"
        BY <2>2, <2>10, <3>4
      <4> QED
        BY <2>1, <2>2, <3>4, <4>2, <4>3 DEF SubscribersKnow
    <3> QED
      BY <2>7, <3>1, <3>2, <3>3, <3>4
  <2>13. SubscribersKnow'
    BY <2>6, <2>12 DEF SubscribersKnow
  <2> QED
    BY <1>0, <2>8, <2>9, <2>11, <2>13
<1>9. ASSUME NEW w \in Workers, Notify(w) PROVE ToldInv'
  <2>1. PICK a \in Existing : a = current[w]
    BY <1>9 DEF Notify
  <2>2. /\ pc[w] = "notify" /\ pc' = [pc EXCEPT ![w] = "check"]
        /\ told' = [told EXCEPT ![a] = IF alerts[a].options.muted THEN "muted"
                                       ELSE IF overlap THEN "lost" ELSE new[w]]
        /\ UNCHANGED <<alerts, todo, current, copies, new, overlap>>
    BY <1>9, <2>1 DEF Notify
  <2>3. a \in Alerts /\ alerts[a] # NotYet
    BY <2>1 DEF Existing
  <2>4. Existing' = Existing /\ Running' = Running /\ w \in Running
    BY <2>2 DEF Existing, Running, TypeOK
  <2>5. Sole' /\ Voided' /\ Untold' /\ Created'
    BY <2>2, <2>3, <2>4 DEF Sole, Voided, Untold, Created, TypeOK
  <2>6. Synced'
    BY <2>2, <2>4 DEF Synced, Sole, TypeOK
  <2>7. ~overlap => new[w] = alerts[a].state
    BY <2>1, <2>2, <2>4 DEF Synced
  <2>8. told'[a] \in {alerts[a].state, "muted", "lost"} /\ \A b \in Alerts \ {a} : told'[b] = told[b]
    BY <2>2, <2>3, <2>7 DEF TypeOK
  <2>9. \A v \in Workers \ {w} : pc'[v] = pc[v]
    BY <2>2 DEF TypeOK
  <2>10. SubscribersKnow'
    BY <2>1, <2>2, <2>4, <2>8, <2>9 DEF SubscribersKnow, Existing
  <2> QED
    BY <1>0, <2>5, <2>6, <2>10
<1>10. ASSUME NEW w \in Workers, w \in Running, Forget(w), UNCHANGED overlap,
              \A a \in Alerts : told'[a] = IF pc[w] = "notify" /\ current[w] = a THEN "lost" ELSE told[a]
       PROVE  ToldInv'
  <2>1. /\ pc' = [pc EXCEPT ![w] = "idle"] /\ todo' = [todo EXCEPT ![w] = {}]
        /\ current' = [current EXCEPT ![w] = NotLoaded] /\ new' = [new EXCEPT ![w] = "unknown"]
        /\ copies' = [copies EXCEPT ![w] = Expired] /\ UNCHANGED alerts
    BY <1>10 DEF Forget
  <2>2. Existing' = Existing /\ Running' = Running \ {w}
    BY <2>1 DEF Existing, Running, TypeOK
  <2>3. Sole' /\ Voided' /\ Untold' /\ Created'
    BY <1>10, <2>1, <2>2 DEF Sole, Voided, Untold, Created, TypeOK
  <2>4. Synced'
    BY <1>10, <2>1, <2>2 DEF Synced, Sole, TypeOK
  <2>5. \A v \in Workers \ {w} : pc'[v] = pc[v] /\ current'[v] = current[v]
    BY <2>1 DEF TypeOK
  <2>6. SubscribersKnow'
    BY <1>10, <2>1, <2>2, <2>5 DEF SubscribersKnow, Existing
  <2> QED
    BY <1>0, <2>3, <2>4, <2>6
<1>11. ASSUME NEW w \in Workers, End(w) \/ Raise(w) \/ Killed(w) PROVE ToldInv'
  <2>1. w \in Running /\ Forget(w) /\ UNCHANGED <<overlap, unchecked>>
    BY <1>11 DEF End, Raise, Killed, Leave, Running
  <2>2. \A a \in Alerts : told'[a] = IF pc[w] = "notify" /\ current[w] = a THEN "lost" ELSE told[a]
    BY <1>11 DEF End, Raise, Killed, Leave, TypeOK
  <2> QED
    BY <1>10, <2>1, <2>2
<1>12. CASE UNCHANGED vars
  BY <1>0, <1>12 DEF vars, Sole, Voided, Untold, Created, Synced, SubscribersKnow, Running, Existing
<1> QED
  BY <1>1, <1>2, <1>3, <1>4, <1>5, <1>6, <1>7, <1>8, <1>9, <1>11, <1>12 DEF Next, User, Worker

LEMMA ToldInvInit == Init => ToldInv
<1> USE AlertsAssumption, MarkersAssumption DEF Init
<1>1. Init => TypeOK
  <2>1. 0 + 0 <= MaxPending
    OBVIOUS
  <2>2. [a \in Alerts |-> NotYet] \in [Alerts -> Row] /\ Expired \in [Alerts -> Row \cup {NotLoaded}]
    BY DEF Row, Expired
  <2>3. "unknown" \in States
    BY DEF States
  <2>4. Init => overlap \in BOOLEAN /\ unchecked \in BOOLEAN /\ disturbed \subseteq Alerts /\ result \in Results
    OBVIOUS
  <2>7. Init => owed \in Nat /\ pending \in Nat /\ owed + pending <= MaxPending
    BY <2>1
  <2>5. Init => alerts \in [Alerts -> Row] /\ copies \in [Workers -> [Alerts -> Row \cup {NotLoaded}]]
    BY <2>2
  <2>6. Init => new \in [Workers -> States] /\ todo \in [Workers -> SUBSET Alerts]
    BY <2>3
  <2> QED
    BY <2>4, <2>5, <2>6, <2>7 DEF TypeOK
<1>2. Init => Existing = {} /\ Running = {}
  BY DEF Existing, Running
<1> QED
  BY <1>1, <1>2 DEF ToldInv, Sole, Voided, Untold, Created, Synced, SubscribersKnow

\* For any number of alerts and workers: what subscribers last heard of an alert is its state, unless it changed
\* while the alert was muted, the check died before it told them, or checks overlapped (check_alerts_for_query).
THEOREM SubscribersAreTold == Spec => []TypeOK /\ []SubscribersKnow
<1>1. Init => ToldInv
  BY ToldInvInit
<1>2. ToldInv /\ [Next]_vars => ToldInv'
  BY ToldInvStep
<1>3. ToldInv => TypeOK /\ SubscribersKnow
  BY DEF ToldInv
<1> QED
  BY <1>1, <1>2, <1>3, PTL DEF Spec

(***************************************************************************)
(* What a check alone has found out.                                       *)
(***************************************************************************)
\* What its session holds of an alert that was not edited since it began has the alert's options.
SameOptions ==
  ~overlap => \A w \in Running : \A a \in Existing \ disturbed :
    copies[w][a] # NotLoaded => copies[w][a].options = alerts[a].options

\* No check is to come, and the latest result has had one.
Quiet == owed = 0 /\ pending = 0 /\ ~unchecked

\* If no result came since it began, it goes by the latest one, and an alert it has been at has that result's
\* state or is about to be written with it.
GoesByLatest ==
  Quiet /\ ~overlap => \A w \in Running :
    /\ value[w] \in {result, NotLoaded}
    /\ \A a \in Existing \ disturbed :
         LET s == Outcome(result, alerts[a].options.threshold)
         IN  IF pc[w] = "write" /\ current[w] = a THEN new[w] = s ELSE a \in todo[w] \/ alerts[a].state = s

\* A state that is about to be told again has a reason.
ReasonToRepeat ==
  ~overlap => \A w \in Running :
    LET a == current[w]
    IN  pc[w] \in {"write", "notify"} /\ a \in Existing /\ told[a] = new[w] =>
          \/ new[w] = "unknown"
          \/ new[w] = "triggered" /\ (alerts[a].options.rearm \/ a \in disturbed)

CheckInv == ToldInv /\ SameOptions /\ GoesByLatest /\ ReasonToRepeat /\ StateIsCurrent

\* Users and the clock leave an alert that is not edited its state and its options.
LEMMA UntouchedAlerts ==
  ASSUME CheckInv, ToldInv', UNCHANGED <<results, check, told, overlap, unchecked>>,
         disturbed \subseteq disturbed',
         \A a \in Existing' : \/ a \in disturbed'
                            \/ /\ a \in Existing /\ alerts'[a].state = alerts[a].state
                               /\ alerts'[a].options = alerts[a].options,
         \A w \in Running : (pc[w] \in {"write", "notify"} /\ current[w] \in Existing') => current[w] \in Existing
  PROVE  CheckInv'
<1>1. Running' = Running
  BY DEF Running, check
<1>2. SameOptions'
  BY <1>1 DEF CheckInv, SameOptions, check
<1>3. GoesByLatest'
  BY <1>1 DEF Quiet, results, CheckInv, GoesByLatest, check
<1>4. ReasonToRepeat'
  BY <1>1 DEF CheckInv, ReasonToRepeat, check
<1>5. StateIsCurrent'
  BY <1>1 DEF Quiet, results, CheckInv, StateIsCurrent, check
<1> QED
  BY <1>2, <1>3, <1>4, <1>5 DEF CheckInv

\* A result is owed a check, or has got none.
LEMMA ResultsKeepChecks ==
  ASSUME CheckInv, Executor \/ \E r \in Results : SaveQuery(r)
  PROVE  CheckInv'
<1>1. ToldInv'
  BY ToldInvStep DEF CheckInv, Next, User
<1>2. ~Quiet'
  <2>1. owed \in Nat /\ pending \in Nat
    BY DEF CheckInv, ToldInv, TypeOK
  <2> QED
    BY <2>1 DEF Quiet, Executor, NewResult, Delay, ExecutorKilled, SaveQuery
<1>3. UNCHANGED <<alerts, check, told, disturbed, overlap>>
  BY DEF Executor, NewResult, Delay, ExecutorKilled, SaveQuery, history
<1>4. Running' = Running /\ Existing' = Existing
  BY <1>3 DEF Running, Existing, check
<1>5. GoesByLatest' /\ StateIsCurrent'
  BY <1>2 DEF GoesByLatest, StateIsCurrent, Quiet
<1>6. SameOptions' /\ ReasonToRepeat'
  BY <1>3, <1>4 DEF CheckInv, SameOptions, ReasonToRepeat, check
<1> QED
  BY <1>1, <1>5, <1>6 DEF CheckInv

LEMMA UsersKeepChecks ==
  ASSUME CheckInv, Tick \/ User
  PROVE  CheckInv'
<1>1. ToldInv'
  BY ToldInvStep DEF CheckInv, Next
<1> USE DEF CheckInv, ToldInv
<1>2. CASE Tick
  <2>1. ASSUME NEW a \in Existing'
        PROVE  a \in Existing /\ alerts'[a].state = alerts[a].state /\ alerts'[a].options = alerts[a].options
    <3>1. a \in Existing /\ alerts'[a] = [alerts[a] EXCEPT !.age = Older(@)]
      BY <1>2, <2>1 DEF Tick, Existing
    <3>2. alerts[a] \in Alert
      BY <3>1, RowsOfExisting
    <3> QED
      BY <3>1, <3>2 DEF Alert
  <2>2. UNCHANGED <<results, check, told, overlap, unchecked>> /\ disturbed' = disturbed
    BY <1>2 DEF Tick, history
  <2> QED
    BY <1>1, <2>1, <2>2, UntouchedAlerts
<1>3. ASSUME NEW a \in Alerts, NEW o \in Options, Create(a, o)
      PROVE  CheckInv'
  <2>1. \A b \in Existing' : b = a \/ (b \in Existing /\ alerts'[b] = alerts[b])
    BY <1>3 DEF Create, Existing, TypeOK
  <2>2. \A w \in Running : pc[w] \in {"write", "notify"} => current[w] # a
    BY <1>3 DEF Create, Created, Running
  <2>3. UNCHANGED <<results, check, told, overlap, unchecked>> /\ disturbed' = disturbed \cup {a}
    BY <1>3 DEF Create
  <2>4. \A b \in Existing' : \/ b \in disturbed'
                           \/ /\ b \in Existing /\ alerts'[b].state = alerts[b].state
                              /\ alerts'[b].options = alerts[b].options
    BY <2>1, <2>3
  <2>5. \A w \in Running : (pc[w] \in {"write", "notify"} /\ current[w] \in Existing') => current[w] \in Existing
    BY <2>1, <2>2
  <2> QED
    BY <1>1, <2>3, <2>4, <2>5, UntouchedAlerts
<1>4. ASSUME NEW a \in Alerts, NEW o \in Options, Edit(a, o)
      PROVE  CheckInv'
  <2>1. \A b \in Existing' : b \in Existing /\ (b = a \/ alerts'[b] = alerts[b])
    BY <1>4 DEF Edit, Existing, TypeOK
  <2>2. UNCHANGED <<results, check, told, overlap, unchecked>> /\ disturbed' = disturbed \cup {a}
    BY <1>4 DEF Edit
  <2>3. \A b \in Existing' : \/ b \in disturbed'
                           \/ /\ b \in Existing /\ alerts'[b].state = alerts[b].state
                              /\ alerts'[b].options = alerts[b].options
    BY <2>1, <2>2
  <2> QED
    BY <1>1, <2>1, <2>2, <2>3, UntouchedAlerts
<1>5. ASSUME NEW a \in Alerts, Delete(a)
      PROVE  CheckInv'
  <2>1. \A b \in Existing' : b \in Existing /\ alerts'[b] = alerts[b]
    BY <1>5 DEF Delete, Existing, TypeOK
  <2>2. UNCHANGED <<results, check, told, overlap, unchecked>> /\ disturbed' = disturbed
    BY <1>5 DEF Delete, history
  <2> QED
    BY <1>1, <2>1, <2>2, UntouchedAlerts
<1>6. CASE \E r \in Results : SaveQuery(r)
  BY <1>6, ResultsKeepChecks
<1> QED
  BY <1>2, <1>3, <1>4, <1>5, <1>6 DEF User

LEMMA BeginKeepsChecks ==
  ASSUME CheckInv, NEW w \in Workers, Begin(w)
  PROVE  CheckInv'
<1>1. ToldInv'
  BY ToldInvStep DEF CheckInv, Next, Worker
<1> USE DEF CheckInv, ToldInv
<1>2. /\ pc[w] = "idle" /\ pc' = [pc EXCEPT ![w] = "check"] /\ todo'[w] = Existing
      /\ value'[w] = result /\ copies'[w] = alerts
      /\ disturbed' = {} /\ overlap' = (Running # {})
      /\ UNCHANGED <<result, alerts, current, new>>
  BY DEF Begin, TypeOK
<1>3. Running' = Running \cup {w} /\ Existing' = Existing /\ pc'[w] = "check"
  BY <1>2 DEF Running, Existing, TypeOK
<1>4. ~overlap' => Running' = {w}
  BY <1>2, <1>3
<1>5. SameOptions' /\ GoesByLatest' /\ ReasonToRepeat' /\ StateIsCurrent'
  BY <1>2, <1>3, <1>4 DEF SameOptions, GoesByLatest, ReasonToRepeat, StateIsCurrent
<1> QED
  BY <1>1, <1>5

\* A check that is alone, and what it sees of an alert that was not edited.
LEMMA SeenAlone ==
  ASSUME CheckInv, NEW w \in Running, ~overlap, NEW a \in Existing, a \in todo[w]
  PROVE  /\ Running = {w}
         /\ Seen(w, a).state = alerts[a].state
         /\ a \notin disturbed => Seen(w, a).options = alerts[a].options
         /\ Quiet => SeenResult(w) = result
BY DEF CheckInv, ToldInv, Sole, Synced, SameOptions, GoesByLatest, Seen, SeenResult

LEMMA EvaluateKeepsChecks ==
  ASSUME CheckInv, NEW w \in Workers, NEW a \in Alerts, Evaluate(w, a)
  PROVE  CheckInv'
<1> DEFINE row == Seen(w, a)
           s == Outcome(SeenResult(w), row.options.threshold)
<1>1. ToldInv'
  BY ToldInvStep DEF CheckInv, Next, Worker
<1> USE DEF CheckInv, ToldInv
<1>2. /\ pc[w] = "check" /\ a \in todo[w] /\ todo' = [todo EXCEPT ![w] = @ \ {a}]
      /\ value' = [value EXCEPT ![w] = SeenResult(w)]
      /\ UNCHANGED <<results, alerts, told, disturbed, overlap, unchecked>>
  BY DEF Evaluate, history
<1>3. \/ ~ShouldNotify(row, s) /\ UNCHANGED <<pc, current, new, copies>>
      \/ /\ ShouldNotify(row, s)
         /\ pc' = [pc EXCEPT ![w] = "write"] /\ current' = [current EXCEPT ![w] = a]
         /\ new' = [new EXCEPT ![w] = s] /\ copies' = [copies EXCEPT ![w][a] = row]
  BY DEF Evaluate
<1>4. w \in Running /\ Running' = Running /\ Existing' = Existing
  BY <1>2, <1>3 DEF Running, Existing, TypeOK
<1>5. ~overlap => Running = {w}
  BY <1>4 DEF Sole
<1>6. ~overlap /\ a \in Existing =>
        /\ row.state = alerts[a].state
        /\ a \notin disturbed => row.options = alerts[a].options
        /\ Quiet => SeenResult(w) = result
  BY <1>2, <1>4, SeenAlone
<1>7. todo'[w] = todo[w] \ {a} /\ value'[w] = SeenResult(w)
  BY <1>2 DEF TypeOK
<1>8. StateIsCurrent'
  BY <1>4 DEF StateIsCurrent
<1> HIDE DEF row, s
<1>9. CASE ~ShouldNotify(row, s) /\ UNCHANGED <<pc, current, new, copies>>
  <2>1. row.state = s
    BY <1>9 DEF ShouldNotify
  <2>2. SameOptions' /\ ReasonToRepeat'
    BY <1>2, <1>4, <1>9 DEF SameOptions, ReasonToRepeat
  <2>3. GoesByLatest'
    <3> SUFFICES ASSUME Quiet, ~overlap
                 PROVE  /\ value'[w] \in {result, NotLoaded}
                        /\ \A b \in Existing \ disturbed :
                             LET z == Outcome(result, alerts[b].options.threshold)
                             IN  b \in todo'[w] \/ alerts[b].state = z
      BY <1>2, <1>4, <1>5, <1>9 DEF Quiet, results, GoesByLatest
    <3>1. value'[w] = result
      BY <1>4, <1>7 DEF GoesByLatest, SeenResult
    <3>2. a \in Existing \ disturbed => alerts[a].state = Outcome(result, alerts[a].options.threshold)
      BY <1>6, <2>1 DEF s
    <3>3. \A b \in Existing \ disturbed :
            b \in todo[w] \/ alerts[b].state = Outcome(result, alerts[b].options.threshold)
      BY <1>2, <1>4 DEF GoesByLatest
    <3> QED
      BY <1>7, <3>1, <3>2, <3>3
  <2> QED
    BY <1>1, <1>8, <2>2, <2>3
<1>10. CASE /\ ShouldNotify(row, s)
            /\ pc' = [pc EXCEPT ![w] = "write"] /\ current' = [current EXCEPT ![w] = a]
            /\ new' = [new EXCEPT ![w] = s] /\ copies' = [copies EXCEPT ![w][a] = row]
  <2>1. pc'[w] = "write" /\ current'[w] = a /\ new'[w] = s /\ copies'[w][a] = row
    BY <1>10 DEF TypeOK
  <2>2. \A b \in Alerts \ {a} : copies'[w][b] = copies[w][b]
    BY <1>10 DEF TypeOK
  <2>3. SameOptions'
    <3> SUFFICES ASSUME ~overlap, NEW b \in Existing \ disturbed, copies'[w][b] # NotLoaded
                 PROVE  copies'[w][b].options = alerts[b].options
      BY <1>2, <1>4, <1>5 DEF SameOptions
    <3>1. CASE b = a
      BY <1>6, <2>1, <3>1
    <3>2. CASE b # a
      BY <1>4, <2>2, <3>2 DEF SameOptions, Existing
    <3> QED
      BY <3>1, <3>2
  <2>4. GoesByLatest'
    <3> SUFFICES ASSUME Quiet, ~overlap
                 PROVE  /\ value'[w] \in {result, NotLoaded}
                        /\ \A b \in Existing \ disturbed :
                             LET z == Outcome(result, alerts[b].options.threshold)
                             IN  IF a = b THEN s = z ELSE b \in todo'[w] \/ alerts[b].state = z
      BY <1>2, <1>4, <1>5, <2>1 DEF Quiet, results, GoesByLatest
    <3>1. value'[w] = result
      BY <1>4, <1>7 DEF GoesByLatest, SeenResult
    <3>2. a \in Existing \ disturbed => s = Outcome(result, alerts[a].options.threshold)
      BY <1>6 DEF s
    <3>3. \A b \in Existing \ disturbed :
            b \in todo[w] \/ alerts[b].state = Outcome(result, alerts[b].options.threshold)
      BY <1>2, <1>4 DEF GoesByLatest
    <3> QED
      BY <1>7, <3>1, <3>2, <3>3
  <2>5. ReasonToRepeat'
    <3> SUFFICES ASSUME ~overlap, a \in Existing, told[a] = s, s # "unknown"
                 PROVE  s = "triggered" /\ (alerts[a].options.rearm \/ a \in disturbed)
      BY <1>2, <1>4, <1>5, <2>1 DEF ReasonToRepeat
    <3>1. new' \in [Workers -> States]
      BY <1>1 DEF TypeOK
    <3>2. s \in States
      BY <2>1, <3>1
    <3>3. told[a] \in {alerts[a].state, "muted", "lost", "nothing", "unknown"}
      BY <1>2, <1>5 DEF SubscribersKnow
    <3>4. s = row.state
      BY <1>6, <3>2, <3>3 DEF States
    <3>5. row.state = "triggered" /\ row.options.rearm
      BY <1>10, <3>4 DEF ShouldNotify
    <3> QED
      BY <1>6, <3>4, <3>5
  <2> QED
    BY <1>1, <1>8, <2>3, <2>4, <2>5
<1> QED
  BY <1>3, <1>9, <1>10

LEMMA WriteKeepsChecks ==
  ASSUME CheckInv, NEW w \in Workers, Write(w)
  PROVE  CheckInv'
<1>1. ToldInv'
  BY ToldInvStep DEF CheckInv, Next, Worker
<1> USE DEF CheckInv, ToldInv
<1>2. PICK a \in Existing : a = current[w]
  BY DEF Write
<1>3. /\ pc[w] = "write" /\ copies' = [copies EXCEPT ![w] = Expired] /\ value' = [value EXCEPT ![w] = NotLoaded]
      /\ pc' = [pc EXCEPT ![w] = IF Skipped(copies[w][a].state, new[w]) THEN "check" ELSE "notify"]
      /\ alerts' = [alerts EXCEPT ![a].age = 0,
                                  ![a].state = IF new[w] # copies[w][a].state THEN new[w] ELSE @]
      /\ UNCHANGED <<results, todo, current, new, told, disturbed, overlap, unchecked>>
  BY <1>2 DEF Write, history
<1>4. a \in Alerts /\ alerts[a] \in Alert
  BY <1>2, RowsOfExisting
<1>5. /\ alerts'[a].state = IF new[w] # copies[w][a].state THEN new[w] ELSE alerts[a].state
      /\ alerts'[a].options = alerts[a].options
      /\ \A b \in Alerts \ {a} : alerts'[b] = alerts[b]
  BY <1>3, <1>4 DEF Alert, TypeOK
<1>6. alerts'[a] \notin {NotYet, Gone}
  <2>1. alerts'[a] \in Row
    BY <1>1, <1>4 DEF TypeOK
  <2>2. alerts'[a] \in Alert
    <3>1. 0 \in Ages /\ new[w] \in States
      BY AlertsAssumption DEF Ages, TypeOK
    <3> QED
      BY <1>3, <1>4, <3>1 DEF Alert, TypeOK
  <2> QED
    BY <2>2, MarkersAssumption
<1>7. Existing' = Existing /\ Running' = Running /\ w \in Running
  BY <1>3, <1>4, <1>5, <1>6, <1>2 DEF Existing, Running, TypeOK
<1>8. pc'[w] \in {"check", "notify"} /\ value'[w] = NotLoaded /\ \A b \in Alerts : copies'[w][b] = NotLoaded
  BY <1>3 DEF TypeOK, Expired
<1>9. ~overlap => Running = {w} /\ alerts'[a].state = new[w]
  BY <1>2, <1>3, <1>5, <1>7 DEF Sole, Synced
<1>10. SameOptions'
  BY <1>3, <1>7, <1>8, <1>9 DEF SameOptions, Existing
<1>11. GoesByLatest'
  <2> SUFFICES ASSUME Quiet, ~overlap, NEW b \in Existing \ disturbed, b \notin todo[w]
               PROVE  alerts'[b].state = Outcome(result, alerts'[b].options.threshold)
    BY <1>3, <1>7, <1>8, <1>9 DEF Quiet, results, GoesByLatest
  <2>1. IF b = a THEN new[w] = Outcome(result, alerts[b].options.threshold)
                 ELSE alerts[b].state = Outcome(result, alerts[b].options.threshold)
    BY <1>2, <1>3, <1>7 DEF GoesByLatest
  <2>2. CASE b = a
    BY <1>5, <1>9, <2>1, <2>2
  <2>3. CASE b # a
    BY <1>2, <1>5, <2>1, <2>3 DEF Existing
  <2> QED
    BY <2>2, <2>3
<1>12. ReasonToRepeat'
  BY <1>2, <1>3, <1>5, <1>7, <1>9 DEF ReasonToRepeat
<1>13. StateIsCurrent'
  BY <1>7 DEF StateIsCurrent
<1> QED
  BY <1>1, <1>10, <1>11, <1>12, <1>13

LEMMA NotifyKeepsChecks ==
  ASSUME CheckInv, NEW w \in Workers, Notify(w)
  PROVE  CheckInv'
<1>1. ToldInv'
  BY ToldInvStep DEF CheckInv, Next, Worker
<1> USE DEF CheckInv, ToldInv
<1>2. /\ pc[w] = "notify" /\ pc' = [pc EXCEPT ![w] = "check"]
      /\ UNCHANGED <<results, alerts, todo, current, value, copies, new, disturbed, overlap, unchecked>>
  BY DEF Notify
<1>3. Existing' = Existing /\ Running' = Running /\ w \in Running /\ pc'[w] = "check"
  BY <1>2 DEF Existing, Running, TypeOK
<1>4. ~overlap => Running = {w}
  BY <1>3 DEF Sole
<1>5. SameOptions' /\ GoesByLatest' /\ ReasonToRepeat' /\ StateIsCurrent'
  BY <1>2, <1>3, <1>4 DEF Quiet, results, SameOptions, GoesByLatest, ReasonToRepeat, StateIsCurrent
<1> QED
  BY <1>1, <1>5

LEMMA ForgetKeepsChecks ==
  ASSUME CheckInv, NEW w \in Workers, End(w) \/ Raise(w) \/ Killed(w)
  PROVE  CheckInv'
<1>1. ToldInv'
  BY ToldInvStep DEF CheckInv, Next, Worker
<1> USE DEF CheckInv, ToldInv
<1>2. w \in Running /\ Forget(w) /\ UNCHANGED <<overlap, unchecked>>
  BY DEF End, Raise, Killed, Leave, Running, history
<1>3. Existing' = Existing /\ Running' = Running \ {w} /\ UNCHANGED <<results, alerts>>
  BY <1>2 DEF Forget, Existing, Running, TypeOK
<1>4. ~overlap => Running' = {}
  BY <1>2, <1>3 DEF Sole
<1>5. SameOptions' /\ GoesByLatest' /\ ReasonToRepeat'
  BY <1>2, <1>4 DEF SameOptions, GoesByLatest, ReasonToRepeat
<1>6. StateIsCurrent'
  <2>1. CASE End(w)
    <3>1. pc[w] = "check" /\ todo[w] = {} /\ disturbed' = disturbed
      BY <2>1 DEF End, history
    <3>2. Quiet /\ ~overlap =>
            \A a \in Existing \ disturbed : alerts[a].state = Outcome(result, alerts[a].options.threshold)
      BY <1>2, <3>1 DEF GoesByLatest
    <3> QED
      BY <1>2, <1>3, <3>1, <3>2 DEF Quiet, results, StateIsCurrent
  <2>2. CASE Raise(w) \/ Killed(w)
    <3>1. disturbed' = Alerts
      BY <2>2 DEF Raise, Killed, Leave
    <3> QED
      BY <1>3, <3>1 DEF StateIsCurrent, Existing
  <2> QED
    BY <2>1, <2>2
<1> QED
  BY <1>1, <1>5, <1>6

LEMMA CheckInvStep ==
  ASSUME CheckInv, [Next]_vars
  PROVE  CheckInv'
<1>1. CASE UNCHANGED vars
  <2>1. ToldInv'
    BY ToldInvStep DEF CheckInv
  <2>2. Existing' = Existing /\ Running' = Running
    BY <1>1 DEF vars, check, Existing, Running
  <2> QED
    BY <1>1, <2>1, <2>2
       DEF Quiet, results, CheckInv, SameOptions, GoesByLatest, ReasonToRepeat, StateIsCurrent, vars, check, history
<1>2. CASE Tick \/ User
  BY <1>2, UsersKeepChecks
<1>3. CASE Executor
  BY <1>3, ResultsKeepChecks
<1>4. ASSUME NEW w \in Workers, Worker(w)
      PROVE  CheckInv'
  BY <1>4, BeginKeepsChecks, EvaluateKeepsChecks, WriteKeepsChecks, NotifyKeepsChecks, ForgetKeepsChecks DEF Worker
<1> QED
  BY <1>1, <1>2, <1>3, <1>4 DEF Next

\* For any number of alerts and workers: when nothing is left to check, an alert that was not edited since has the
\* state of the latest result, and what subscribers hear twice is a triggered alert that rearms or an alert without
\* a state, as long as checks do not overlap (check_alerts_for_query).
THEOREM ChecksGoByTheLatest == Spec => []StateIsCurrent /\ RepeatsOnlyRearmed
<1>1. Init => CheckInv
  <2>1. Init => ToldInv
    BY ToldInvInit
  <2>2. Init => Existing = {} /\ Running = {} /\ disturbed = Alerts
    BY DEF Init, Existing, Running
  <2> QED
    BY <2>1, <2>2 DEF CheckInv, SameOptions, GoesByLatest, ReasonToRepeat, StateIsCurrent
<1>2. CheckInv /\ [Next]_vars => CheckInv'
  BY CheckInvStep
<1>3. CheckInv => StateIsCurrent
  BY DEF CheckInv
<1>4. CheckInv /\ [Next]_vars =>
        [\A w \in Workers : Notify(w) /\ told'[current[w]] = new[w] /\ told[current[w]] = new[w] =>
           \/ new[w] = "triggered" /\ (alerts[current[w]].options.rearm \/ current[w] \in disturbed)
           \/ new[w] = "unknown"]_vars
  <2> SUFFICES ASSUME CheckInv, NEW w \in Workers, Notify(w), told'[current[w]] = new[w], told[current[w]] = new[w]
               PROVE  \/ new[w] = "triggered" /\ (alerts[current[w]].options.rearm \/ current[w] \in disturbed)
                      \/ new[w] = "unknown"
    OBVIOUS
  <2>1. new[w] \in States /\ current[w] \in Existing /\ w \in Running /\ pc[w] = "notify"
    BY DEF CheckInv, ToldInv, TypeOK, Notify, Running
  <2>2. ~overlap
    BY <2>1 DEF Notify, CheckInv, ToldInv, TypeOK, States, Existing
  <2> QED
    BY <2>1, <2>2 DEF CheckInv, ReasonToRepeat
<1> QED
  BY <1>1, <1>2, <1>3, <1>4, PTL DEF Spec, RepeatsOnlyRearmed
=============================================================================
