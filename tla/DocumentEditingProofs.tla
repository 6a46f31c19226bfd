------------------------ MODULE DocumentEditingProofs ------------------------
(***************************************************************************)
(* Dashboards: for any number of pages, fields and requests the version    *)
(* check prevents blind overwrites, and refuses no save without a cause.   *)
(***************************************************************************)
EXTENDS DocumentEditing, TLAPS

\* The parts of the type invariant the argument needs.
EditTypes ==
  /\ row \in Rows /\ commits \in Seq(Requests)
  /\ view \in [Pages -> Rows]
  /\ pc \in [Requests -> InFlight \cup {"unsent", "answered", "conflict", "error"}]
  /\ request \in [Requests -> RequestRecords \cup {NoRequest}]
  /\ \A r \in Requests : pc[r] # "unsent" => request[r] \in RequestRecords
  /\ session \in [Requests -> Rows]

\* Copies are never ahead of the row, and the same version is the same content.
Behind(copy) == copy.version <= row.version /\ (copy.version = row.version => copy.data = row.data)

ViewsInv == \A p \in Pages : Behind(view[p])

\* A page's version never falls behind what it showed when it sent a request that is under way.
SentInv ==
  \A r \in Requests : pc[r] \in InFlight =>
    /\ Behind(request[r].base)
    /\ request[r].base.version <= view[request[r].page].version

LoadedInv ==
  \A r \in Requests : pc[r] = "loaded" =>
    /\ Behind(session[r])
    /\ request[r].base.version <= session[r].version
    /\ request[r].versioned => request[r].base.version = session[r].version

\* A page has not the version of a save that is unanswered; if that is the current one, then its
\* answer is all that separates the page from the row.
CommittedInv ==
  \A r \in Requests : pc[r] = "committed" =>
    /\ session[r].version \in 2 .. row.version
    /\ commits[session[r].version - 1] = r
    /\ view[request[r].page].version < session[r].version
    /\ request[r].versioned =>
         /\ session[r].version = request[r].base.version + 1
         /\ session[r].version = row.version =>
              /\ view[request[r].page] = request[r].base
              /\ \A f \in Fields : row.data[f] = IF f \in request[r].sent THEN session[r].data[f]
                                                                         ELSE request[r].base.data[f]

\* The version counts the commits; a page has the version of each answered save that carried one.
HistoryInv ==
  /\ row.version = Len(commits) + 1
  /\ \A i \in 1 .. Len(commits) :
       /\ pc[commits[i]] \in {"committed", "answered"}
       /\ session[commits[i]].version = i + 1
       /\ pc[commits[i]] = "answered" /\ request[commits[i]].versioned =>
            view[request[commits[i]].page].version >= i + 1

\* No save that carried the version and whose answer the page had is later than what the page showed.
KnownInv ==
  \A r \in Requests : pc[r] \in InFlight =>
    /\ request[r].base.version >= 1
    /\ \A s \in request[r].after : pc[s] = "answered"
    /\ \A i \in request[r].base.version .. Len(commits) :
         commits[i] \in request[r].after => ~request[commits[i]].versioned

VersionsStart == \A p \in Pages : view[p].version >= 1

EditInv == ViewsInv /\ SentInv /\ LoadedInv /\ CommittedInv /\ HistoryInv /\ KnownInv /\ VersionsStart

LEMMA SendTypes ==
  ASSUME EditTypes, NEW r \in Requests, NEW p \in Pages, NEW op \in {"post", "delete"}, NEW v \in BOOLEAN,
         NEW changed \in SUBSET Fields, NEW sent \in SUBSET Fields, Send(r, p, op, v, changed, sent)
  PROVE  /\ EditTypes'
         /\ request'[r] \in RequestRecords
         /\ request'[r].page = p /\ request'[r].versioned = v /\ request'[r].base = view[p]
         /\ request'[r].after = Answered(p)
<1> DEFINE carried == [f \in Fields |-> IF f \in changed THEN r ELSE view[p].data[f]]
<1> DEFINE new == [page |-> p, op |-> op, versioned |-> v, base |-> view[p], sent |-> sent,
                   data |-> carried, after |-> Answered(p)]
<1>1. view[p] \in Rows /\ view[p].data \in Data
  BY DEF EditTypes, Rows
<1>2. carried \in Data
  BY <1>1 DEF Data
<1>3. Answered(p) \in SUBSET Requests
  BY DEF Answered
<1> HIDE DEF carried
<1>4. new \in RequestRecords
  BY <1>1, <1>2, <1>3 DEF RequestRecords
<1>5. request' = [request EXCEPT ![r] = new] /\ pc' = [pc EXCEPT ![r] = "sent"]
  BY DEF Send, Step, carried
<1>6. request'[r] = new
  BY <1>5 DEF EditTypes
<1>7. UNCHANGED <<row, commits, view, session>>
  BY DEF Send
<1>8. EditTypes'
  BY <1>4, <1>5, <1>7 DEF EditTypes, InFlight
<1> QED
  BY <1>4, <1>6, <1>8

LEMMA SendIs ==
  ASSUME NEW r \in Requests, Save(r) \/ Archive(r)
  PROVE  \E p \in Pages, op \in {"post", "delete"}, v \in BOOLEAN, changed \in SUBSET Fields,
            sent \in SUBSET Fields : Send(r, p, op, v, changed, sent)
<1>1. CASE Save(r)
  <2>1. PICK p \in Pages, v \in BOOLEAN, changed \in (SUBSET Fields) \ {{}} :
          \E sent \in {changed} \cup (IF kind = "query" THEN {Fields} ELSE {}) :
            Send(r, p, "post", v, changed, sent)
    BY <1>1 DEF Save
  <2>2. PICK sent \in {changed} \cup (IF kind = "query" THEN {Fields} ELSE {}) :
          Send(r, p, "post", v, changed, sent)
    BY <2>1
  <2>3. changed \in SUBSET Fields /\ sent \in SUBSET Fields
    OBVIOUS
  <2> QED
    BY <2>2, <2>3
<1>2. CASE Archive(r)
  <2>1. PICK p \in Pages, changed \in (SUBSET Fields) \ {{}} : Send(r, p, "delete", FALSE, changed, changed)
    BY <1>2 DEF Archive
  <2> QED
    BY <2>1
<1> QED
  BY <1>1, <1>2

LEMMA SavedTypes ==
  ASSUME EditTypes, NEW r \in Requests, pc[r] = "loaded"
  PROVE  /\ Assigned(r) \in Data /\ Saved(r) \in Rows
         /\ row.version \in Nat /\ NextVersion(row.version) \in Nat
<1>1. request[r].data \in Data /\ session[r].data \in Data /\ row.data \in Data
      /\ session[r].version \in Nat /\ row.version \in Nat
  BY DEF EditTypes, RequestRecords, Rows
<1>2. Assigned(r) \in Data
  BY <1>1 DEF Assigned, Data
<1>3. [f \in Fields |-> IF f \in request[r].sent THEN request[r].data[f] ELSE session[r].data[f]] \in Data
  BY <1>1 DEF Data
<1>4. NextVersion(session[r].version) \in Nat /\ NextVersion(row.version) \in Nat
  BY <1>1 DEF NextVersion
<1> QED
  BY <1>1, <1>2, <1>3, <1>4 DEF Saved, Rows

LEMMA ReceivedTypes ==
  ASSUME EditTypes, NEW r \in Requests, pc[r] = "committed"
  PROVE  /\ request[r].page \in Pages /\ Received(r) \in Rows
         /\ Received(r).version = IF kind = "query" \/ request[r].versioned
                                    THEN session[r].version ELSE Shown(r).version
         /\ Received(r).data = Merged(r)
<1>1. request[r] \in RequestRecords
  BY DEF EditTypes
<1>2. request[r].page \in Pages /\ request[r].base \in Rows
  BY <1>1 DEF RequestRecords
<1>3. Shown(r) \in Rows /\ session[r] \in Rows
  BY <1>2 DEF Shown, EditTypes
<1>4. Merged(r) \in Data
  BY <1>3 DEF Merged, Rows, Data
<1>5. Shown(r).version \in Nat /\ session[r].version \in Nat
  BY <1>3 DEF Rows
<1> QED
  BY <1>2, <1>4, <1>5 DEF Received, Rows

LEMMA EditTypesStep ==
  ASSUME EditTypes, [Next]_vars
  PROVE  EditTypes'
<1>1. ASSUME NEW p \in Pages, Open(p) PROVE EditTypes'
  BY <1>1 DEF Open, EditTypes
<1>2. ASSUME NEW r \in Requests, Save(r) \/ Archive(r) PROVE EditTypes'
  BY <1>2, SendIs, SendTypes
<1>3. ASSUME NEW r \in Requests, Load(r) \/ Stale(r) PROVE EditTypes'
  BY <1>3 DEF Load, Stale, Step, EditTypes, InFlight
<1>4. ASSUME NEW r \in Requests, Commit(r) PROVE EditTypes'
  <2>1. pc[r] = "loaded"
    BY <1>4 DEF Commit
  <2>2. row' \in Rows
    BY <1>4, <2>1, SavedTypes DEF Commit, Rows
  <2>3. session' \in [Requests -> Rows]
    BY <1>4, <2>1, SavedTypes DEF Commit, EditTypes
  <2>4. commits' \in Seq(Requests)
    BY <1>4 DEF Commit, EditTypes
  <2> QED
    BY <1>4, <2>2, <2>3, <2>4 DEF Commit, Step, EditTypes, InFlight
<1>5. ASSUME NEW r \in Requests, Answer(r) PROVE EditTypes'
  <2>1. view' \in [Pages -> Rows]
    BY <1>5, ReceivedTypes DEF Answer, EditTypes
  <2> QED
    BY <1>5, <2>1 DEF Answer, Step, EditTypes, InFlight
<1>6. UNCHANGED vars => EditTypes'
  BY DEF vars, EditTypes
<1> QED
  BY <1>1, <1>2, <1>3, <1>4, <1>5, <1>6 DEF Next

\* What a dashboard's page takes from an answer, in the state before it arrives.
LEMMA AnswerIs ==
  ASSUME kind = "dashboard", EditTypes, EditInv, NEW r \in Requests, Answer(r)
  PROVE  LET p == request[r].page IN
         /\ p \in Pages /\ pc[r] = "committed" /\ pc' = [pc EXCEPT ![r] = "answered"]
         /\ UNCHANGED <<kind, row, commits, request, session>>
         /\ \A q \in Pages : q # p => view'[q] = view[q]
         /\ request[r].versioned => view'[p].version = session[r].version
         /\ ~request[r].versioned => view'[p].version = view[p].version
         /\ view[p].version < session[r].version
         /\ view[p].version <= view'[p].version /\ view'[p].version <= session[r].version
         /\ view'[p].data = Merged(r)
<1>1. pc[r] = "committed"
  BY DEF Answer
<1>2. /\ request[r].page \in Pages /\ Received(r) \in Rows
      /\ Received(r).version = IF request[r].versioned THEN session[r].version ELSE view[request[r].page].version
      /\ Received(r).data = Merged(r)
  BY <1>1, ReceivedTypes DEF Shown
<1>3. view' = [view EXCEPT ![request[r].page] = Received(r)]
      /\ pc' = [pc EXCEPT ![r] = "answered"] /\ UNCHANGED <<kind, row, commits, request, session>>
  BY DEF Answer, Step
<1>4. view'[request[r].page] = Received(r) /\ \A q \in Pages : q # request[r].page => view'[q] = view[q]
  BY <1>2, <1>3 DEF EditTypes
<1>5. view[request[r].page].version < session[r].version
  BY <1>1 DEF EditInv, CommittedInv
<1>6. view[request[r].page].version \in Nat /\ session[r].version \in Nat
  BY <1>2 DEF EditTypes, Rows
<1> QED
  BY <1>1, <1>2, <1>3, <1>4, <1>5, <1>6

LEMMA CommitIs ==
  ASSUME kind = "dashboard", EditTypes, NEW r \in Requests, Commit(r)
  PROVE  /\ pc[r] = "loaded" /\ session[r].version = row.version
         /\ row'.version = row.version + 1 /\ row'.data = Assigned(r)
         /\ commits' = Append(commits, r)
         /\ session'[r] = Saved(r) /\ Saved(r).version = row.version + 1
         /\ \A f \in Fields : f \in request[r].sent => session'[r].data[f] = request[r].data[f]
         /\ \A s \in Requests : s # r => session'[s] = session[s]
         /\ pc' = [pc EXCEPT ![r] = "committed"] /\ pc'[r] = "committed"
         /\ UNCHANGED <<kind, view, request>>
<1>1. session' = [session EXCEPT ![r] = Saved(r)] /\ pc' = [pc EXCEPT ![r] = "committed"]
  BY DEF Commit, Step
<1>2. Saved(r).version = session[r].version + 1
  BY DEF Saved, NextVersion
<1>3. ASSUME NEW f \in Fields, f \in request[r].sent PROVE Saved(r).data[f] = request[r].data[f]
  BY <1>3 DEF Saved
<1>4. session'[r] = Saved(r) /\ \A s \in Requests : s # r => session'[s] = session[s]
  BY <1>1 DEF EditTypes
<1>5. pc'[r] = "committed"
  BY <1>1 DEF EditTypes
<1> QED
  BY <1>1, <1>2, <1>3, <1>4, <1>5 DEF Commit, NextVersion

LEMMA CommitKeeps ==
  ASSUME kind = "dashboard", EditTypes, EditInv, NEW r \in Requests, Commit(r)
  PROVE  EditInv'
<1> DEFINE n == Len(commits)
<1>0. row.version \in Nat /\ row.version = n + 1 /\ n \in Nat /\ row.data \in Data
      /\ (\A p \in Pages : view[p].version \in Nat)
      /\ (\A s \in Requests : session[s].version \in Nat)
      /\ (\A s \in Requests : pc[s] # "unsent" =>
            request[s].base.version \in Nat /\ request[s].page \in Pages /\ request[s].after \subseteq Requests)
  BY DEF EditTypes, EditInv, HistoryInv, Rows, RequestRecords
<1>1. commits' = Append(commits, r) /\ Len(commits') = n + 1 /\ commits'[n + 1] = r
      /\ \A i \in 1 .. n : commits'[i] = commits[i] /\ commits[i] \in Requests
  BY CommitIs DEF EditTypes
<1>1a. \A i \in 1 .. n : commits[i] # r
  BY <1>1, CommitIs DEF EditInv, HistoryInv
<1>2. \A s \in Requests : s # r => pc'[s] = pc[s]
  BY CommitIs DEF EditTypes
<1> HIDE DEF n
<1>3. ViewsInv' /\ VersionsStart'
  BY <1>0, CommitIs DEF EditInv, ViewsInv, Behind, VersionsStart
<1>4. SentInv'
  <2>1. ASSUME NEW s \in Requests, pc'[s] \in InFlight
        PROVE  /\ request[s].base.version < row'.version
               /\ request[s].base.version <= view[request[s].page].version
    <3>1. pc[s] \in InFlight
      BY <1>2, <2>1, CommitIs DEF InFlight
    <3>2. request[s].base.version \in Nat
      BY <1>0, <3>1 DEF InFlight
    <3> QED
      BY <1>0, <3>1, <3>2, CommitIs DEF EditInv, SentInv, Behind
  <2>2. \A s \in Requests : pc'[s] # "unsent" => request[s].base.version \in Nat
    BY <1>0, <1>2, CommitIs
  <2> QED
    BY <1>0, <2>1, <2>2, CommitIs DEF SentInv, Behind, InFlight
<1>5. LoadedInv'
  <2>1. ASSUME NEW s \in Requests, pc'[s] = "loaded"
        PROVE  /\ session'[s] = session[s] /\ session[s].version < row'.version
               /\ request[s].base.version <= session[s].version
               /\ request[s].versioned => request[s].base.version = session[s].version
    <3>1. s # r
      BY <2>1, CommitIs
    <3>2. pc[s] = "loaded"
      BY <1>2, <2>1, <3>1
    <3> QED
      BY <1>0, <3>1, <3>2, CommitIs DEF EditInv, LoadedInv, Behind
  <2> QED
    BY <1>0, <2>1, CommitIs DEF LoadedInv, Behind
<1>6. CommittedInv'
  <2> DEFINE q == request[r].page
  <2>1. pc[r] = "loaded" /\ session[r].version = row.version /\ q \in Pages
        /\ view[q].version <= row.version /\ request[r].base.version <= view[q].version
        /\ request[r].base.version \in Nat /\ view[q].version \in Nat
    BY <1>0, CommitIs DEF EditInv, ViewsInv, SentInv, Behind, InFlight
  <2>2. ASSUME request[r].versioned
        PROVE  /\ request[r].base.version = row.version
               /\ view[q] = request[r].base
               /\ \A f \in Fields : row'.data[f] = IF f \in request[r].sent THEN session'[r].data[f]
                                                                           ELSE request[r].base.data[f]
    <3>1. request[r].base.version = row.version /\ view[q].version = row.version
      BY <2>1, <2>2 DEF EditInv, LoadedInv
    <3>2. view[q].data = row.data /\ request[r].base.data = row.data /\ session[r].data = row.data
      BY <2>1, <3>1 DEF EditInv, ViewsInv, SentInv, LoadedInv, Behind, InFlight
    <3>3. view[q] \in Rows /\ request[r].base \in Rows
      BY <2>1 DEF EditTypes, RequestRecords
    <3>4. view[q] = request[r].base
      BY <3>1, <3>2, <3>3 DEF Rows
    <3>5. ASSUME NEW f \in Fields
          PROVE  row'.data[f] = IF f \in request[r].sent THEN session'[r].data[f] ELSE request[r].base.data[f]
      <4>1. row'.data[f] = IF f \in request[r].sent /\ request[r].data[f] # session[r].data[f]
                             THEN request[r].data[f] ELSE row.data[f]
        <5>1. row'.data = Assigned(r)
          BY CommitIs
        <5> HIDE DEF Assigned
        <5>2. Assigned(r)[f] = IF f \in request[r].sent /\ request[r].data[f] # session[r].data[f]
                                 THEN request[r].data[f] ELSE row.data[f]
          BY DEF Assigned
        <5> QED
          BY <5>1, <5>2
      <4>2. f \in request[r].sent => session'[r].data[f] = request[r].data[f]
        BY CommitIs
      <4> QED
        BY <3>2, <4>1, <4>2
    <3> QED
      BY <3>1, <3>4, <3>5
  <2> HIDE DEF q
  <2>3. ASSUME NEW s \in Requests, pc'[s] = "committed", s # r
        PROVE  /\ session[s].version \in 2 .. row.version
               /\ commits'[session[s].version - 1] = s
               /\ view[request[s].page].version < session[s].version
               /\ request[s].versioned => session[s].version = request[s].base.version + 1
    <3>1. /\ session[s].version \in 2 .. row.version
          /\ commits[session[s].version - 1] = s
          /\ view[request[s].page].version < session[s].version
          /\ request[s].versioned => session[s].version = request[s].base.version + 1
      BY <1>2, <2>3 DEF EditInv, CommittedInv
    <3>2. session[s].version - 1 \in 1 .. n
      BY <1>0, <3>1
    <3> QED
      BY <1>1, <3>1, <3>2
  <2>4. row.version >= 1 /\ row'.version = row.version + 1 /\ session'[r].version = row.version + 1
        /\ commits'[session'[r].version - 1] = r
    BY <1>0, <1>1, CommitIs
  <2>5. ASSUME NEW s \in Requests, pc'[s] = "committed"
        PROVE  /\ session'[s].version \in 2 .. row'.version
               /\ commits'[session'[s].version - 1] = s
               /\ view'[request'[s].page].version < session'[s].version
               /\ request'[s].versioned =>
                    /\ session'[s].version = request'[s].base.version + 1
                    /\ session'[s].version = row'.version =>
                         /\ view'[request'[s].page] = request'[s].base
                         /\ \A f \in Fields : row'.data[f] = IF f \in request'[s].sent THEN session'[s].data[f]
                                                                                  ELSE request'[s].base.data[f]
    <3>0. view' = view /\ request' = request
      BY CommitIs
    <3>1. CASE s = r
      <4>1. view[request[s].page].version < session'[s].version
        BY <1>0, <2>1, <2>4, <3>1 DEF q
      <4>2. session'[s].version \in 2 .. row'.version
        BY <1>0, <2>4, <3>1
      <4> QED
        BY <2>2, <2>4, <3>0, <3>1, <4>1, <4>2 DEF q
    <3>2. CASE s # r
      <4>1. session'[s] = session[s] /\ session[s].version # row'.version
            /\ session[s].version \in 2 .. row'.version
        BY <1>0, <2>3, <2>4, <2>5, <3>2, CommitIs
      <4> QED
        BY <2>3, <2>5, <3>0, <3>2, <4>1
    <3> QED
      BY <3>1, <3>2
  <2> QED
    BY <2>5 DEF CommittedInv
<1>7. HistoryInv'
  <2>1. row'.version = Len(commits') + 1
    BY <1>0, <1>1, CommitIs
  <2>2. ASSUME NEW i \in 1 .. n + 1
        PROVE  /\ pc'[commits'[i]] \in {"committed", "answered"}
               /\ session'[commits'[i]].version = i + 1
               /\ pc'[commits'[i]] = "answered" /\ request[commits'[i]].versioned =>
                    view[request[commits'[i]].page].version >= i + 1
    <3>1. CASE i = n + 1
      BY <1>0, <1>1, <3>1, CommitIs
    <3>2. CASE i \in 1 .. n
      <4>1. commits'[i] = commits[i] /\ commits[i] \in Requests /\ commits[i] # r
        BY <1>1, <1>1a, <3>2
      <4>2. pc'[commits[i]] = pc[commits[i]] /\ session'[commits[i]] = session[commits[i]]
        BY <1>2, <4>1, CommitIs
      <4> QED
        BY <3>2, <4>1, <4>2 DEF EditInv, HistoryInv, n
    <3> QED
      BY <1>0, <3>1, <3>2
  <2> QED
    BY <1>1, <2>1, <2>2, CommitIs DEF HistoryInv
<1>8. KnownInv'
  <2>1. ASSUME NEW s \in Requests, pc'[s] \in InFlight
        PROVE  /\ request[s].base.version >= 1
               /\ \A t \in request[s].after : pc'[t] = "answered"
               /\ \A i \in request[s].base.version .. Len(commits') :
                    commits'[i] \in request[s].after => ~request[commits'[i]].versioned
    <3>1. pc[s] \in InFlight
      BY <1>2, <2>1, CommitIs DEF InFlight
    <3>2. /\ request[s].base.version >= 1 /\ request[s].base.version \in Nat
          /\ \A t \in request[s].after : pc[t] = "answered" /\ t \in Requests
          /\ \A i \in request[s].base.version .. n :
               commits[i] \in request[s].after => ~request[commits[i]].versioned
      BY <1>0, <3>1 DEF EditInv, KnownInv, InFlight, n
    <3>3. r \notin request[s].after /\ \A t \in request[s].after : pc'[t] = "answered"
      BY <1>2, <3>2, CommitIs
    <3>4. ASSUME NEW i \in request[s].base.version .. n + 1, commits'[i] \in request[s].after
          PROVE  ~request[commits'[i]].versioned
      <4>1. i \in request[s].base.version .. n /\ i \in 1 .. n
        BY <1>0, <1>1, <3>2, <3>3, <3>4
      <4> QED
        BY <1>1, <3>2, <3>4, <4>1
    <3> QED
      BY <1>1, <3>2, <3>3, <3>4
  <2> QED
    BY <2>1, CommitIs DEF KnownInv
<1> QED
  BY <1>3, <1>4, <1>5, <1>6, <1>7, <1>8 DEF EditInv

LEMMA AnswerKeeps ==
  ASSUME kind = "dashboard", EditTypes, EditInv, NEW r \in Requests, Answer(r)
  PROVE  EditInv'
<1> DEFINE p == request[r].page
<1>0. /\ p \in Pages /\ pc[r] = "committed" /\ pc' = [pc EXCEPT ![r] = "answered"]
      /\ UNCHANGED <<kind, row, commits, request, session>>
      /\ \A q \in Pages : q # p => view'[q] = view[q]
      /\ request[r].versioned => view'[p].version = session[r].version
      /\ ~request[r].versioned => view'[p].version = view[p].version
      /\ view[p].version < session[r].version
      /\ view[p].version <= view'[p].version /\ view'[p].version <= session[r].version
      /\ view'[p].data = Merged(r)
  BY AnswerIs
<1>1. /\ row.version \in Nat /\ row.data \in Data
      /\ (\A q \in Pages : view[q].version \in Nat /\ view'[q].version \in Nat)
      /\ (\A s \in Requests : session[s].version \in Nat)
      /\ (\A s \in Requests : pc[s] # "unsent" =>
            request[s].base.version \in Nat /\ request[s].page \in Pages /\ request[s].after \subseteq Requests)
  <2>1. EditTypes'
    BY EditTypesStep DEF Next
  <2> QED
    BY <2>1 DEF EditTypes, Rows, RequestRecords
<1>2. \A s \in Requests : s # r => pc'[s] = pc[s]
  BY <1>0 DEF EditTypes
<1>3. pc'[r] = "answered"
  BY <1>0 DEF EditTypes
<1>4. \A q \in Pages : view[q].version <= view'[q].version
  BY <1>0, <1>1
<1>5. VersionsStart'
  BY <1>1, <1>4 DEF EditInv, VersionsStart
<1>6. ViewsInv'
  <2>1. session[r].version <= row.version
    BY <1>0, <1>1 DEF EditInv, CommittedInv
  <2>2. view'[p].version <= row.version
    BY <1>0, <1>1, <2>1
  <2>3. ASSUME view'[p].version = row.version PROVE view'[p].data = row.data
    <3>1. session[r].version = row.version /\ request[r].versioned
      BY <1>0, <1>1, <2>1, <2>3
    <3>2. /\ view[p] = request[r].base
          /\ \A f \in Fields : row.data[f] = IF f \in request[r].sent THEN session[r].data[f]
                                                                      ELSE request[r].base.data[f]
      BY <1>0, <3>1 DEF EditInv, CommittedInv
    <3>3. Shown(r) = request[r].base
      BY <3>2 DEF Shown
    <3>4. Merged(r) = row.data
      BY <1>1, <3>2, <3>3 DEF Merged, Data
    <3> QED
      BY <1>0, <3>4
  <2> QED
    BY <1>0, <2>2, <2>3 DEF EditInv, ViewsInv, Behind
<1>7. SentInv'
  <2>1. ASSUME NEW s \in Requests, pc'[s] \in InFlight
        PROVE  Behind(request[s].base) /\ request[s].base.version <= view'[request[s].page].version
    <3>1. s # r /\ pc[s] \in InFlight /\ pc[s] # "unsent"
      BY <1>2, <1>3, <2>1 DEF InFlight
    <3>2. Behind(request[s].base) /\ request[s].base.version <= view[request[s].page].version
      BY <3>1 DEF EditInv, SentInv
    <3> QED
      BY <1>1, <1>4, <3>1, <3>2
  <2> QED
    BY <1>0, <2>1 DEF SentInv, Behind
<1>8. LoadedInv'
  <2>1. \A s \in Requests : pc'[s] = "loaded" => pc[s] = "loaded"
    BY <1>2, <1>3
  <2> QED
    BY <1>0, <2>1 DEF EditInv, LoadedInv, Behind
<1>9. CommittedInv'
  <2>1. ASSUME NEW s \in Requests, pc'[s] = "committed"
        PROVE  /\ view'[request[s].page].version < session[s].version
               /\ request[s].versioned /\ session[s].version = row.version => view'[request[s].page] = view[request[s].page]
    <3>1. s # r /\ pc[s] = "committed" /\ request[s].page \in Pages
      BY <1>1, <1>2, <1>3, <2>1
    <3>2. CASE request[s].page # p
      BY <1>0, <3>1, <3>2 DEF EditInv, CommittedInv
    <3>3. CASE request[s].page = p
      <4>1. /\ commits[session[s].version - 1] = s /\ commits[session[r].version - 1] = r
            /\ view[p].version < session[s].version /\ session[s].version <= row.version
            /\ session[r].version <= row.version
        BY <1>0, <3>1, <3>3 DEF EditInv, CommittedInv
      <4>2. session[s].version # session[r].version
        BY <3>1, <4>1
      <4>3. request[r].base.version <= view[p].version
        BY <1>0 DEF EditInv, SentInv, InFlight
      <4>4. request[r].versioned => session[r].version = request[r].base.version + 1
        BY <1>0 DEF EditInv, CommittedInv
      <4>5. request[r].base.version \in Nat /\ session[r].version \in Nat /\ session[s].version \in Nat
            /\ view[p].version \in Nat
        BY <1>0, <1>1
      <4>6. view'[p].version < session[s].version
        BY <1>0, <4>1, <4>2, <4>3, <4>4, <4>5
      <4>7. ASSUME request[s].versioned, session[s].version = row.version PROVE FALSE
        <5>1. session[s].version = request[s].base.version + 1 /\ view[p] = request[s].base
          BY <3>1, <3>3, <4>7 DEF EditInv, CommittedInv
        <5>2. session[s].version = view[p].version + 1
          BY <5>1
        <5> QED
          BY <1>0, <4>1, <4>2, <4>5, <4>7, <5>2
      <4> QED
        BY <3>3, <4>6, <4>7
    <3> QED
      BY <3>2, <3>3
  <2>2. \A s \in Requests : pc'[s] = "committed" => pc[s] = "committed"
    BY <1>2, <1>3
  <2> QED
    BY <1>0, <2>1, <2>2 DEF EditInv, CommittedInv
<1>10. HistoryInv'
  <2>1. ASSUME NEW i \in 1 .. Len(commits)
        PROVE  /\ pc'[commits[i]] \in {"committed", "answered"}
               /\ pc'[commits[i]] = "answered" /\ request[commits[i]].versioned =>
                    view'[request[commits[i]].page].version >= i + 1
    <3>1. commits[i] \in Requests /\ i \in Nat
      BY DEF EditTypes
    <3>2. /\ pc[commits[i]] \in {"committed", "answered"} /\ session[commits[i]].version = i + 1
          /\ pc[commits[i]] = "answered" /\ request[commits[i]].versioned =>
               view[request[commits[i]].page].version >= i + 1
      BY DEF EditInv, HistoryInv
    <3>3. CASE commits[i] = r
      BY <1>0, <1>1, <1>3, <3>1, <3>2, <3>3
    <3>4. CASE commits[i] # r
      <4>1. pc'[commits[i]] = pc[commits[i]] /\ request[commits[i]].page \in Pages
        BY <1>1, <1>2, <3>1, <3>2, <3>4
      <4> QED
        BY <1>1, <1>4, <3>1, <3>2, <4>1
    <3> QED
      BY <3>3, <3>4
  <2> QED
    BY <1>0, <2>1 DEF EditInv, HistoryInv
<1>11. KnownInv'
  <2>1. ASSUME NEW s \in Requests, pc'[s] \in InFlight
        PROVE  pc[s] \in InFlight /\ \A t \in request[s].after : pc'[t] = "answered"
    <3>1. pc[s] \in InFlight /\ pc[s] # "unsent"
      BY <1>2, <1>3, <2>1 DEF InFlight
    <3> QED
      BY <1>1, <1>2, <1>3, <3>1 DEF EditInv, KnownInv
  <2> QED
    BY <1>0, <2>1 DEF EditInv, KnownInv
<1> QED
  BY <1>5, <1>6, <1>7, <1>8, <1>9, <1>10, <1>11 DEF EditInv

LEMMA SendKeeps ==
  ASSUME EditTypes, EditInv, NEW r \in Requests, Save(r) \/ Archive(r)
  PROVE  EditInv'
<1>1. PICK p \in Pages, op \in {"post", "delete"}, v \in BOOLEAN, changed \in SUBSET Fields,
           sent \in SUBSET Fields : Send(r, p, op, v, changed, sent)
  BY SendIs
<1>2. /\ request'[r] \in RequestRecords /\ request'[r].page = p /\ request'[r].base = view[p]
      /\ request'[r].after = Answered(p)
  BY <1>1, SendTypes
<1>3. pc[r] = "unsent" /\ pc'[r] = "sent" /\ UNCHANGED <<row, commits, view, session>>
  BY <1>1 DEF Send, Step, EditTypes
<1>4. \A s \in Requests : s # r => pc'[s] = pc[s] /\ request'[s] = request[s]
  BY <1>1 DEF Send, Step, EditTypes
<1>5. view[p].version \in Nat /\ view[p].version >= 1 /\ Behind(view[p])
  BY DEF EditTypes, Rows, EditInv, VersionsStart, ViewsInv
<1>6. ViewsInv' /\ VersionsStart'
  BY <1>3 DEF EditInv, ViewsInv, Behind, VersionsStart
<1>7. SentInv'
  BY <1>2, <1>3, <1>4, <1>5 DEF EditInv, SentInv, Behind, InFlight
<1>8. LoadedInv'
  BY <1>3, <1>4 DEF EditInv, LoadedInv, Behind
<1>9. CommittedInv'
  <2>1. \A s \in Requests : pc'[s] = "committed" => s # r /\ pc[s] = "committed"
    BY <1>3, <1>4
  <2> QED
    BY <1>3, <1>4, <2>1 DEF EditInv, CommittedInv
<1>10. HistoryInv'
  <2>1. \A i \in 1 .. Len(commits) : commits[i] \in Requests /\ commits[i] # r
    BY <1>3 DEF EditTypes, EditInv, HistoryInv
  <2> QED
    BY <1>3, <1>4, <2>1 DEF EditInv, HistoryInv
<1>11. KnownInv'
  <2>0. ASSUME NEW i \in 1 .. Len(commits), commits[i] \in Answered(p)
        PROVE  ~request[commits[i]].versioned \/ view[p].version >= i + 1
    BY <2>0 DEF EditInv, HistoryInv, Answered
  <2>1. ASSUME NEW i \in view[p].version .. Len(commits), commits[i] \in Answered(p)
        PROVE  ~request[commits[i]].versioned
    <3>1. i \in 1 .. Len(commits) /\ i >= view[p].version /\ i \in Nat
      BY <1>5
    <3> QED
      BY <1>5, <2>0, <2>1, <3>1
  <2>2. \A t \in Answered(p) : t \in Requests /\ t # r /\ pc'[t] = "answered" /\ request'[t] = request[t]
    BY <1>3, <1>4 DEF Answered
  <2>3. \A i \in view[p].version .. Len(commits) : commits[i] \in Answered(p) => ~request'[commits[i]].versioned
    BY <2>1, <2>2
  <2>4. ASSUME NEW s \in Requests, s # r, pc[s] \in InFlight
        PROVE  /\ request[s].base.version >= 1
               /\ \A t \in request[s].after : t # r /\ t \in Requests /\ pc'[t] = "answered"
               /\ \A i \in request[s].base.version .. Len(commits) :
                    commits[i] \in request[s].after => ~request'[commits[i]].versioned
    <3>1. request[s].after \subseteq Requests
      BY <2>4 DEF EditTypes, RequestRecords, InFlight
    <3>2. \A t \in request[s].after : pc[t] = "answered" /\ t # r /\ t \in Requests
      BY <1>3, <2>4, <3>1 DEF EditInv, KnownInv
    <3> QED
      BY <1>4, <2>4, <3>2 DEF EditInv, KnownInv
  <2>5. ASSUME NEW s \in Requests, pc'[s] \in InFlight
        PROVE  /\ request'[s].base.version >= 1
               /\ \A t \in request'[s].after : pc'[t] = "answered"
               /\ \A i \in request'[s].base.version .. Len(commits) :
                    commits[i] \in request'[s].after => ~request'[commits[i]].versioned
    <3>1. CASE s = r
      BY <1>2, <1>5, <2>2, <2>3, <3>1
    <3>2. CASE s # r
      BY <1>4, <2>4, <2>5, <3>2
    <3> QED
      BY <3>1, <3>2
  <2> QED
    BY <1>3, <2>5 DEF KnownInv
<1> QED
  BY <1>6, <1>7, <1>8, <1>9, <1>10, <1>11 DEF EditInv

LEMMA EditInvStep ==
  ASSUME kind = "dashboard", EditTypes, EditInv, [Next]_vars
  PROVE  EditInv'
<1>0. row.version \in Nat /\ \A p \in Pages : view[p].version \in Nat
  BY DEF EditTypes, Rows
<1>1. ASSUME NEW p \in Pages, Open(p) PROVE EditInv'
  <2>1. UNCHANGED <<kind, row, commits, pc, request, session>> /\ view'[p] = row
        /\ \A q \in Pages : q # p => view'[q] = view[q]
    BY <1>1 DEF Open, EditTypes
  <2>2. \A r \in Requests : pc[r] \in InFlight => request[r].page # p /\ request[r].page \in Pages
    BY <1>1 DEF Open, EditTypes, RequestRecords, InFlight
  <2>3. \A q \in Pages : view'[q].version >= view[q].version /\ view'[q].version \in Nat
    BY <1>0, <2>1 DEF EditInv, ViewsInv, Behind
  <2>4. ViewsInv' /\ VersionsStart'
    BY <1>0, <2>1, <2>3 DEF EditInv, ViewsInv, Behind, VersionsStart
  <2>5. SentInv' /\ LoadedInv' /\ CommittedInv' /\ KnownInv'
    BY <2>1, <2>2 DEF EditInv, SentInv, LoadedInv, CommittedInv, KnownInv, Behind, InFlight
  <2>6. HistoryInv'
    <3>1. ASSUME NEW i \in 1 .. Len(commits), pc[commits[i]] = "answered", request[commits[i]].versioned
          PROVE  view'[request[commits[i]].page].version >= i + 1
      <4>1. view[request[commits[i]].page].version >= i + 1 /\ request[commits[i]].page \in Pages /\ i \in Nat
        BY <3>1 DEF EditInv, HistoryInv, EditTypes, RequestRecords
      <4> QED
        BY <1>0, <2>3, <4>1
    <3> QED
      BY <2>1, <3>1 DEF EditInv, HistoryInv
  <2> QED
    BY <2>4, <2>5, <2>6 DEF EditInv
<1>2. ASSUME NEW r \in Requests, Load(r) PROVE EditInv'
  <2>1. /\ UNCHANGED <<row, commits, view, request>> /\ pc[r] = "sent" /\ session'[r] = row
        /\ \A s \in Requests : s # r => pc'[s] = pc[s] /\ session'[s] = session[s]
        /\ pc'[r] \in {"conflict", "loaded"}
        /\ pc'[r] = "loaded" /\ request[r].versioned => request[r].base.version = row.version
    BY <1>2 DEF Load, Step, EditTypes
  <2>2. ViewsInv' /\ VersionsStart' /\ SentInv'
    BY <2>1 DEF EditInv, ViewsInv, SentInv, Behind, VersionsStart, InFlight
  <2>3. LoadedInv'
    BY <1>0, <2>1 DEF EditInv, LoadedInv, SentInv, Behind, InFlight
  <2>4. CommittedInv'
    <3>1. \A s \in Requests : pc'[s] = "committed" => s # r /\ pc[s] = "committed"
      BY <2>1
    <3> QED
      BY <2>1, <3>1 DEF EditInv, CommittedInv
  <2>5. HistoryInv'
    <3>1. \A i \in 1 .. Len(commits) : commits[i] \in Requests /\ commits[i] # r
      BY <2>1 DEF EditTypes, EditInv, HistoryInv
    <3> QED
      BY <2>1, <3>1 DEF EditInv, HistoryInv
  <2>6. KnownInv'
    <3>1. \A s \in Requests : pc'[s] \in InFlight => pc[s] \in InFlight /\ request[s].after \subseteq Requests
      BY <2>1 DEF InFlight, EditTypes, RequestRecords
    <3>2. \A t \in Requests : pc[t] = "answered" => pc'[t] = "answered"
      BY <2>1
    <3> QED
      BY <2>1, <3>1, <3>2 DEF EditInv, KnownInv
  <2> QED
    BY <2>2, <2>3, <2>4, <2>5, <2>6 DEF EditInv
<1>3. ASSUME NEW r \in Requests, Stale(r) PROVE EditInv'
  <2>1. /\ UNCHANGED <<row, commits, view, request, session>> /\ pc[r] = "loaded"
        /\ \A s \in Requests : s # r => pc'[s] = pc[s]
        /\ pc'[r] \in {"conflict", "error"}
    BY <1>3 DEF Stale, Step, EditTypes
  <2>2. ViewsInv' /\ VersionsStart' /\ SentInv' /\ LoadedInv'
    BY <2>1 DEF EditInv, ViewsInv, SentInv, LoadedInv, Behind, VersionsStart, InFlight
  <2>3. CommittedInv'
    <3>1. \A s \in Requests : pc'[s] = "committed" => pc[s] = "committed"
      BY <2>1
    <3> QED
      BY <2>1, <3>1 DEF EditInv, CommittedInv
  <2>4. HistoryInv'
    <3>1. \A i \in 1 .. Len(commits) : commits[i] \in Requests /\ commits[i] # r
      BY <2>1 DEF EditTypes, EditInv, HistoryInv
    <3> QED
      BY <2>1, <3>1 DEF EditInv, HistoryInv
  <2>5. KnownInv'
    <3>1. \A s \in Requests : pc'[s] \in InFlight => pc[s] \in InFlight /\ request[s].after \subseteq Requests
      BY <2>1 DEF InFlight, EditTypes, RequestRecords
    <3>2. \A t \in Requests : pc[t] = "answered" => pc'[t] = "answered"
      BY <2>1
    <3> QED
      BY <2>1, <3>1, <3>2 DEF EditInv, KnownInv
  <2> QED
    BY <2>2, <2>3, <2>4, <2>5 DEF EditInv
<1>4. UNCHANGED vars => EditInv'
  BY DEF vars, EditInv, ViewsInv, SentInv, LoadedInv, CommittedInv, HistoryInv, KnownInv, Behind, VersionsStart
<1> QED
  BY <1>1, <1>2, <1>3, <1>4, SendKeeps, CommitKeeps, AnswerKeeps DEF Next

LEMMA EditInit == Init => EditTypes /\ EditInv
<1>1. First \in Rows
  BY DEF First, Rows, Data
<1>2. Init => EditTypes
  BY <1>1 DEF Init, EditTypes, InFlight
<1>3. Init => row.version = Len(commits) + 1
  BY DEF Init, First
<1>4. Init => EditInv
  BY <1>1, <1>3 DEF Init, EditInv, ViewsInv, SentInv, LoadedInv, CommittedInv, HistoryInv, KnownInv, VersionsStart,
     Behind, First, InFlight
<1> QED
  BY <1>2, <1>4

\* A dashboard is only saved by a request with a version if the page it comes from shows the current
\* content: DashboardResource.post keeps the promise of its docstring for any number of users.
THEOREM DashboardsAreNotOverwritten == Spec => []VersionNamesContent /\ NoBlindDashboard
<1> DEFINE Inv == kind = "dashboard" => EditInv
<1>1. Init => EditTypes /\ Inv
  BY EditInit
<1>2. EditTypes /\ Inv /\ [Next]_vars => EditTypes' /\ Inv'
  <2>1. [Next]_vars => kind' = kind
    BY DEF Next, vars, Open, Save, Archive, Send, Load, Commit, Stale, Answer
  <2> QED
    BY <2>1, EditTypesStep, EditInvStep
<1>3. Inv => VersionNamesContent
  BY DEF EditInv, ViewsInv, Behind, VersionNamesContent
<1>4. EditTypes /\ Inv /\ [Next]_vars => [kind = "dashboard" => ~BlindOverwrite]_vars
  BY DEF EditInv, SentInv, LoadedInv, Behind, Commit, BlindOverwrite, InFlight
<1> QED
  BY <1>1, <1>2, <1>3, <1>4, PTL DEF Spec, NoBlindDashboard

\* A page that is told of a conflict has missed something: a refused save went out before the page had
\* the version of a commit of another page, or of its own, for any numbers of pages and saves.
THEOREM RefusalsHaveACause == Spec => ConflictsAreReal
<1> DEFINE Inv == kind = "dashboard" => EditInv
<1> DEFINE Caused == kind = "dashboard" =>
             \A r \in Requests : Refused(r) =>
               \E i \in request[r].base.version .. Len(commits) :
                 commits[i] \notin request[r].after \/ ~request[commits[i]].versioned
<1>1. Init => EditTypes /\ Inv
  BY EditInit
<1>2. EditTypes /\ Inv /\ [Next]_vars => EditTypes' /\ Inv'
  <2>1. [Next]_vars => kind' = kind
    BY DEF Next, vars, Open, Save, Archive, Send, Load, Commit, Stale, Answer
  <2> QED
    BY <2>1, EditTypesStep, EditInvStep
<1>3. EditTypes /\ Inv /\ [Next]_vars => [Caused]_vars
  <2> SUFFICES ASSUME EditTypes, Inv, Next, kind = "dashboard", NEW r \in Requests, Refused(r)
               PROVE  \E i \in request[r].base.version .. Len(commits) :
                        commits[i] \notin request[r].after \/ ~request[commits[i]].versioned
    OBVIOUS
  <2>1. Load(r) \/ Stale(r)
    <3>1. ASSUME NEW s \in Requests, Save(s) \/ Archive(s) PROVE FALSE
      BY <3>1 DEF Save, Archive, Send, Step, Refused, EditTypes
    <3>2. ASSUME NEW s \in Requests, Commit(s) \/ Answer(s) PROVE FALSE
      BY <3>2 DEF Commit, Answer, Step, Refused, EditTypes
    <3>3. ASSUME NEW s \in Requests, Load(s) \/ Stale(s) PROVE s = r
      BY <3>3 DEF Load, Stale, Step, Refused, EditTypes
    <3>4. ASSUME NEW p \in Pages, Open(p) PROVE FALSE
      BY <3>4 DEF Open, Refused
    <3> QED
      BY <3>1, <3>2, <3>3, <3>4 DEF Next
  <2>2. pc[r] \in InFlight /\ request[r] \in RequestRecords
    BY <2>1 DEF Load, Stale, InFlight, EditTypes
  <2>3. request[r].base.version \in Nat /\ row.version \in Nat /\ session[r].version \in Nat
        /\ row.version = Len(commits) + 1 /\ Len(commits) \in Nat
    BY <2>2 DEF EditTypes, RequestRecords, Rows, EditInv, HistoryInv
  <2>4. request[r].base.version < row.version
    <3>1. CASE Load(r)
      <4>1. request[r].base.version # row.version
        BY <3>1 DEF Load, Step, Refused, EditTypes
      <4> QED
        BY <2>2, <2>3, <4>1 DEF EditInv, SentInv, Behind
    <3>2. CASE Stale(r)
      BY <2>3, <3>2 DEF Stale, EditInv, LoadedInv, Behind
    <3> QED
      BY <2>1, <3>1, <3>2
  <2>5. request[r].base.version \in request[r].base.version .. Len(commits)
    BY <2>3, <2>4
  <2>6. \A i \in request[r].base.version .. Len(commits) :
          commits[i] \in request[r].after => ~request[commits[i]].versioned
    BY <2>2 DEF EditInv, KnownInv
  <2> QED
    BY <2>5, <2>6
<1> QED
  BY <1>1, <1>2, <1>3, PTL DEF Spec, ConflictsAreReal
=============================================================================
