--------------------------- MODULE DocumentEditing ---------------------------
(***************************************************************************)
(* Several pages edit one query (QueryResource, redash/handlers/queries.py)*)
(* or one dashboard (DashboardResource, redash/handlers/dashboards.py).    *)
(* Both handlers load the row, answer 409 when the request carries another *)
(* version than the loaded one, and save with SQLAlchemy's version check   *)
(* (UPDATE ... WHERE version = <loaded version>).  They differ in the      *)
(* mapping: Dashboard.version is generated on every UPDATE, Query.version  *)
(* has version_id_generator False and no code ever assigns a new one.      *)
(*                                                                         *)
(* A page does not wait for the answer of one save before it sends the     *)
(* next: each request is followed on its own, and answers come in any      *)
(* order.  The value of a field is the request that wrote it.              *)
(***************************************************************************)
EXTENDS Naturals, Sequences

CONSTANTS Pages,      \* browsers, or tabs of one browser
          Requests,   \* the saves that are made: a bound
          Fields,     \* the fields a save can change
          Kinds,      \* the kinds of documents looked at: "query", "dashboard"
          NoRequest   \* a request that is not made; the value of a field as it was created

ASSUME EditingAssumption ==
  /\ Kinds \subseteq {"query", "dashboard"}
  /\ NoRequest \notin Requests

VARIABLES kind,     \* what the document is
          row,      \* the committed row: version and data
          commits,  \* the requests that were committed, in order (history)
          view,     \* per page: the version and data it got from the server
          pc,       \* per request: where it is
          request,  \* per request: what it carries
          session   \* per request: the row in the handler's session, as loaded and then as saved

vars == <<kind, row, commits, view, pc, request, session>>

Data == [Fields -> Requests \cup {NoRequest}]
Rows == [version : Nat, data : Data]

\* base is what the page showed when it sent the request, after are its requests answered by then (history).
RequestRecords ==
  [page : Pages, op : {"post", "delete"}, versioned : BOOLEAN, base : Rows,
   sent : SUBSET Fields, data : Data, after : SUBSET Requests]

InFlight == {"sent", "loaded", "committed"}

TypeOK ==
  /\ kind \in Kinds
  /\ row \in Rows /\ commits \in Seq(Requests)
  /\ view \in [Pages -> Rows]
  /\ pc \in [Requests -> InFlight \cup {"unsent", "answered", "conflict", "error"}]
  /\ request \in [Requests -> RequestRecords \cup {NoRequest}]
  /\ \A r \in Requests : pc[r] # "unsent" => request[r] \in RequestRecords
  /\ session \in [Requests -> Rows]

First == [version |-> 1, data |-> [f \in Fields |-> NoRequest]]

Init ==
  /\ kind \in Kinds
  /\ row = First /\ commits = <<>>
  /\ view = [p \in Pages |-> First]
  /\ pc = [r \in Requests |-> "unsent"]
  /\ request = [r \in Requests |-> NoRequest]
  /\ session = [r \in Requests |-> First]

Step(r, to) == pc' = [pc EXCEPT ![r] = to]

\* The page is loaded again, with none of its requests under way (a page that is left has no answers).
Open(p) ==
  /\ \A r \in Requests : pc[r] \in InFlight => request[r].page # p
  /\ view' = [view EXCEPT ![p] = row]
  /\ UNCHANGED <<kind, row, commits, pc, request, session>>

Answered(p) == {r \in Requests : pc[r] = "answered" /\ request[r].page = p}

Send(r, p, op, versioned, changed, sent) ==
  /\ pc[r] = "unsent"
  /\ request' = [request EXCEPT ![r] =
       [page |-> p, op |-> op, versioned |-> versioned, base |-> view[p], sent |-> sent,
        data |-> [f \in Fields |-> IF f \in changed THEN r ELSE view[p].data[f]],
        after |-> Answered(p)]]
  /\ Step(r, "sent")
  /\ UNCHANGED <<kind, row, commits, view, session>>

\* A save sends the changed fields, or (the query editor) all of them, and usually the version.
Save(r) ==
  \E p \in Pages, versioned \in BOOLEAN, changed \in (SUBSET Fields) \ {{}} :
    \E sent \in {changed} \cup (IF kind = "query" THEN {Fields} ELSE {}) :
      Send(r, p, "post", versioned, changed, sent)

\* DELETE archives: is_archived (and a query's schedule) are among the fields.
Archive(r) ==
  \E p \in Pages, changed \in (SUBSET Fields) \ {{}} : Send(r, p, "delete", FALSE, changed, changed)

\* Mutant: the version of the request is not compared.
LoadUnchecked(r) ==
  /\ pc[r] = "sent"
  /\ session' = [session EXCEPT ![r] = row]
  /\ Step(r, "loaded")
  /\ UNCHANGED <<kind, row, commits, view, request>>

\* The handler loads the row and compares versions.
Load(r) ==
  /\ pc[r] = "sent"
  /\ session' = [session EXCEPT ![r] = row]
  /\ Step(r, IF request[r].versioned /\ request[r].base.version # row.version THEN "conflict" ELSE "loaded")
  /\ UNCHANGED <<kind, row, commits, view, request>>

\* update_model assigns what was sent; the UPDATE has the columns that differ from the loaded row.
Assigned(r) ==
  [f \in Fields |-> IF f \in request[r].sent /\ request[r].data[f] # session[r].data[f]
                      THEN request[r].data[f] ELSE row.data[f]]

\* The version an UPDATE writes: version_id_col's default generator, or none.
NextVersion(v) == IF kind = "dashboard" THEN v + 1 ELSE v

\* The session keeps its copy after the commit (expire_on_commit is off): the answer is made of that.
Saved(r) ==
  [version |-> NextVersion(session[r].version),
   data |-> [f \in Fields |-> IF f \in request[r].sent THEN request[r].data[f] ELSE session[r].data[f]]]

Commit(r) ==
  /\ pc[r] = "loaded" /\ session[r].version = row.version
  /\ row' = [version |-> NextVersion(row.version), data |-> Assigned(r)]
  /\ commits' = Append(commits, r)
  /\ session' = [session EXCEPT ![r] = Saved(r)]
  /\ Step(r, "committed")
  /\ UNCHANGED <<kind, view, request>>

\* StaleDataError: no row has the loaded version any more.  Only post answers 409 to it.
Stale(r) ==
  /\ pc[r] = "loaded" /\ session[r].version # row.version
  /\ Step(r, IF request[r].op = "post" THEN "conflict" ELSE "error")
  /\ UNCHANGED <<kind, row, commits, view, request, session>>

\* A dashboard page merges into what it shows, a query page into what it showed when it sent the request.
Shown(r) == IF kind = "query" THEN request[r].base ELSE view[request[r].page]

Merged(r) == [f \in Fields |-> IF f \in request[r].sent THEN session[r].data[f] ELSE Shown(r).data[f]]

\* Mutant: the version after a save without version is taken over, too.
ReceivedWithVersion(r) == [version |-> session[r].version, data |-> Merged(r)]

\* Mutant: the page keeps the version it sent.
ReceivedKeepsVersion(r) == [version |-> Shown(r).version, data |-> Merged(r)]

\* The page takes over the fields it sent, and the version (a dashboard only if it sent it).
Received(r) ==
  [version |-> IF kind = "query" \/ request[r].versioned THEN session[r].version ELSE Shown(r).version,
   data |-> Merged(r)]

Answer(r) ==
  /\ pc[r] = "committed"
  /\ view' = [view EXCEPT ![request[r].page] = Received(r)]
  /\ Step(r, "answered")
  /\ UNCHANGED <<kind, row, commits, request, session>>

Next ==
  \/ \E p \in Pages : Open(p)
  \/ \E r \in Requests : Save(r) \/ Archive(r) \/ Load(r) \/ Commit(r) \/ Stale(r) \/ Answer(r)

Spec == Init /\ [][Next]_vars

(***************************************************************************)
(* Properties.                                                             *)
(***************************************************************************)
\* A version of a dashboard names one content: a page that shows the current version shows the current
\* data, whatever answers of its own saves it has merged and in which order.
VersionNamesContent ==
  kind = "dashboard" => \A p \in Pages : view[p].version = row.version => view[p].data = row.data

\* A save that carries a version goes over changes its page did not show when it was made.
BlindOverwrite == \E r \in Requests : Commit(r) /\ request[r].versioned /\ request[r].base.data # row.data

\* No save of a dashboard does ("Version conflict -- dashboard modified since last read").
NoBlindDashboard == [][kind = "dashboard" => ~BlindOverwrite]_vars

\* No save does, of a query either ("Revision version (for update conflict avoidance)").
NoBlindOverwrite == [][~BlindOverwrite]_vars

Refused(r) == pc[r] # pc'[r] /\ pc'[r] \in {"conflict", "error"}

\* A dashboard's save is never refused over a save of its own page whose answer, with the version, the
\* page had: since the version it shows there was a save of another page, or one of its own that is
\* unanswered or went without the version.
ConflictsAreReal ==
  [][kind = "dashboard" =>
       \A r \in Requests : Refused(r) =>
         \E i \in request[r].base.version .. Len(commits) :
           commits[i] \notin request[r].after \/ ~request[commits[i]].versioned]_vars
==============================================================================
