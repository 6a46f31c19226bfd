-------------------------- MODULE QueryPageProofs ---------------------------
(***************************************************************************)
(* The query page and the page that builds a dataset: the executions a page *)
(* shows, what it saves, its parameters, and the joins of a dataset, for any *)
(* numbers of executions, tries, edits and requests, any names and tables. *)
(***************************************************************************)
EXTENDS QueryExecution, QueryPage, QueryParameters, DatasetJoins, SequenceTheorems,
        FiniteSetTheorems, TLAPS

(* Executions.                                                              *)

(* The ref names the last execution for as long as the page is there, and   *)
(* an execution that has not been started has no request.                   *)
RefIsLast ==
    /\ inExecution = (IF page.mounted THEN started ELSE 0)
    /\ page.isExecuting => started > 0
    /\ \A e \in Executions : e > started => res[e].net = "none" /\ ~res[e].settled

(* A load is only tried again while tries are left. *)
TriesLeft == \A e \in Executions : res[e].net = "backoff" => res[e].tryCount <= MaxTryCount

ExecInv == ExecTypeOK /\ TriesLeft /\ RefIsLast /\ WaitingIsBacked /\ OnlyTheLastIsShown

-----------------------------------------------------------------------------
(* The operators the steps are made of.  Each leaves the other executions   *)
(* as they are.                                                             *)

Record == [net : Requests, status : Statuses, known : BOOLEAN, snap : Snapshots,
           tryCount : 0 .. MaxTryCount + 1, settled : BOOLEAN, forbidden : BOOLEAN]
Page == [result : 0 .. MaxExecutions, isExecuting : BOOLEAN, loaded : BOOLEAN,
         status : Statuses, isCancelling : BOOLEAN, mounted : BOOLEAN]

(* What the steps below have to keep. *)
Kept ==
    /\ page' \in Page /\ res' \in [Executions -> Record]
    /\ TriesLeft' /\ RefIsLast' /\ WaitingIsBacked' /\ OnlyTheLastIsShown'

LEMMA ShownPage ==
  ASSUME NEW p \in Page, NEW e \in 0 .. MaxExecutions, NEW s \in Statuses
  PROVE  [p EXCEPT !.result = e, !.loaded = TRUE, !.isExecuting = FALSE,
                   !.isCancelling = FALSE, !.status = s] \in Page
BY Zenon DEF Page

LEMMA WaitingPage ==
  ASSUME NEW p \in Page, NEW s \in Statuses
  PROVE  [p EXCEPT !.isExecuting = TRUE, !.status = s] \in Page
BY DEF Page

LEMMA LoadedPage == ASSUME NEW p \in Page PROVE [p EXCEPT !.loaded = TRUE] \in Page
BY DEF Page

LEMMA CancellingPage == ASSUME NEW p \in Page PROVE [p EXCEPT !.isCancelling = TRUE] \in Page
BY DEF Page

LEMMA LeftPage == ASSUME NEW p \in Page PROVE [p EXCEPT !.mounted = FALSE] \in Page
BY DEF Page

LEMMA StartedRecord ==
  ASSUME NEW r \in Record, NEW n \in Requests, NEW s \in Statuses
  PROVE  [r EXCEPT !.net = n, !.status = s] \in Record
BY DEF Record

LEMMA RejectedRecord ==
  ASSUME NEW r \in Record
  PROVE  [r EXCEPT !.status = "failed", !.settled = TRUE] \in Record
BY DEF Record, Statuses

LEMMA SentRecord ==
  ASSUME NEW r \in Record, NEW n \in Requests
  PROVE  [r EXCEPT !.net = n] \in Record
BY DEF Record

LEMMA FetchedRecord ==
  ASSUME NEW r \in Record, NEW snap \in Snapshots
  PROVE  [r EXCEPT !.net = "fetched", !.snap = snap] \in Record
BY DEF Record, Requests

LEMMA FollowedRecord ==
  ASSUME NEW r \in Record, NEW n \in Requests, NEW s \in Statuses
  PROVE  [r EXCEPT !.net = n, !.status = s, !.known = TRUE] \in Record
BY DEF Record

LEMMA SettledRecord ==
  ASSUME NEW r \in Record, NEW s \in Statuses
  PROVE  [r EXCEPT !.net = "none", !.status = s, !.settled = TRUE] \in Record
BY DEF Record, Requests

LEMMA ForbiddenRecord ==
  ASSUME NEW r \in Record
  PROVE  [r EXCEPT !.net = "none", !.status = "unset", !.forbidden = TRUE] \in Record
BY DEF Record, Requests, Statuses

LEMMA LoadingRecord ==
  ASSUME NEW r \in Record, NEW t \in 0 .. MaxTryCount + 1
  PROVE  [r EXCEPT !.net = "load", !.status = "loading-result", !.tryCount = t] \in Record
BY DEF Record, Requests, Statuses

LEMMA AgainRecord ==
  ASSUME NEW r \in Record, NEW t \in 0 .. MaxTryCount + 1
  PROVE  [r EXCEPT !.net = "load", !.tryCount = t] \in Record
BY DEF Record, Requests

(* An execution that settles is shown if it is the last one: the page then  *)
(* waits no longer, and otherwise it is as it was.                          *)
LEMMA SettledIsShown ==
  ASSUME ExecInv, NEW e \in Executions, NEW status \in Statuses, OnSettled(e, status),
         NEW new \in Record, res' = [res EXCEPT ![e] = new], new.net = "none",
         res[e].net # "none", UNCHANGED <<started, inExecution>>
  PROVE  Kept
<1> USE BoundsAssumption DEF ExecInv, ExecTypeOK, Executions
<1>1. e <= started
  BY DEF RefIsLast
<1>2. res' \in [Executions -> Record] /\ \A d \in Executions \ {e} : res'[d] = res[d]
  BY DEF Record
<1>3. CASE inExecution = e
  <2>1. page.mounted /\ started = e
    BY <1>3 DEF RefIsLast
  <2>2. page' = [page EXCEPT !.result = e, !.loaded = TRUE, !.isExecuting = FALSE,
                             !.isCancelling = FALSE, !.status = status]
    BY <1>3 DEF OnSettled
  <2>3. page' \in Page /\ page'.mounted = page.mounted /\ ~page'.isExecuting /\ page'.result = e
    <3>1. page \in Page /\ e \in 0 .. MaxExecutions
      BY DEF Page
    <3>2. page' \in Page
      BY <2>2, <3>1, ShownPage
    <3> QED
      BY <2>2, <3>1, <3>2 DEF Page
  <2> QED
    BY <1>1, <1>2, <2>1, <2>3 DEF Kept, TriesLeft, RefIsLast, WaitingIsBacked, OnlyTheLastIsShown
<1>4. CASE inExecution # e
  <2>1. page' = page
    BY <1>4 DEF OnSettled
  <2>2. page.mounted => e # started
    BY <1>4 DEF RefIsLast
  <2> QED
    BY <1>1, <1>2, <2>1, <2>2 DEF Kept, TriesLeft, Page, RefIsLast, WaitingIsBacked, OnlyTheLastIsShown
<1> QED
  BY <1>3, <1>4

(* A step that only changes the status shown, while the execution goes on or *)
(* is forbidden.                                                            *)
LEMMA WaitingGoesOn ==
  ASSUME ExecInv, NEW e \in Executions,
         page' = page \/ \E s \in Statuses : page' = [page EXCEPT !.status = s],
         NEW new \in Record, res' = [res EXCEPT ![e] = new], new.net # "none" \/ new.forbidden,
         new.settled = res[e].settled,
         new.net = "backoff" => new.tryCount <= MaxTryCount,
         res[e].net # "none", UNCHANGED <<started, inExecution>>
  PROVE  Kept
<1> USE BoundsAssumption DEF ExecInv, ExecTypeOK, Executions
<1>1. e <= started
  BY DEF RefIsLast
<1>2. res' \in [Executions -> Record] /\ res'[e] = new /\ \A d \in Executions \ {e} : res'[d] = res[d]
  BY DEF Record
<1>3. /\ page' \in Page /\ page'.mounted = page.mounted /\ page'.isExecuting = page.isExecuting
      /\ page'.result = page.result
  BY DEF Page
<1>4. RefIsLast'
  BY <1>1, <1>2, <1>3 DEF RefIsLast
<1>5. WaitingIsBacked'
  BY <1>1, <1>2, <1>3 DEF WaitingIsBacked, RefIsLast
<1> QED
  BY <1>2, <1>3, <1>4, <1>5 DEF Kept, TriesLeft, OnlyTheLastIsShown

-----------------------------------------------------------------------------
(* An answer or a timer of one execution. *)
LEMMA NetworkStep ==
  ASSUME ExecInv, NEW e \in Executions, Network(e)
  PROVE  ExecInv'
<1> USE BoundsAssumption
<1>0. /\ res[e] \in Record /\ res \in [Executions -> Record] /\ UNCHANGED <<started, cancelled, inExecution>>
      /\ res[e].net # "none"
  BY DEF ExecInv, ExecTypeOK, Record, Network, PostAnswered, CachedAnswered, PollFetched,
         PollAnswered, PollLost, PollAgain, LoadAnswered, LoadFailed, LoadAgain, Answered
<1>1. job' \in [Executions -> JobStates]
  BY DEF ExecInv, ExecTypeOK, JobStates, Network, PostAnswered, CachedAnswered, PollFetched,
         PollAnswered, PollLost, PollAgain, LoadAnswered, LoadFailed, LoadAgain
<1>2. ASSUME Resolve(e) PROVE Kept
  <2> DEFINE new == [res[e] EXCEPT !.net = "none", !.status = "done", !.settled = TRUE]
  <2>1. new \in Record /\ new.net = "none"
    BY <1>0, SettledRecord DEF Statuses, Record
  <2>a. res' = [res EXCEPT ![e] = new]
    BY <1>0, <1>2 DEF Resolve
  <2>2. OnSettled(e, "unset") /\ "unset" \in Statuses
    BY <1>2 DEF Resolve, Statuses
  <2> QED
    BY <1>0, <2>1, <2>2, <2>a, SettledIsShown
<1>3. ASSUME Reject(e) PROVE Kept
  <2> DEFINE new == [res[e] EXCEPT !.net = "none", !.status = "failed", !.settled = TRUE]
  <2>1. new \in Record /\ new.net = "none"
    BY <1>0, SettledRecord DEF Statuses, Record
  <2>a. res' = [res EXCEPT ![e] = new]
    BY <1>0, <1>3 DEF Reject
  <2>2. OnSettled(e, "failed") /\ "failed" \in Statuses
    BY <1>3 DEF Reject, Statuses
  <2> QED
    BY <1>0, <2>1, <2>2, <2>a, SettledIsShown
<1>4. ASSUME NEW new \in Record, res' = [res EXCEPT ![e] = new], new.net # "none" \/ new.forbidden,
             new.settled = res[e].settled,
             new.net = "backoff" => new.tryCount <= MaxTryCount,
             page' = page \/ \E s \in Statuses : page' = [page EXCEPT !.status = s]
      PROVE  Kept
  BY <1>0, <1>4, WaitingGoesOn
<1>5. ASSUME NEW s, NEW next \in {"poll", "timer"}, Follow(e, s, next) PROVE Kept
  <2> DEFINE new == [res[e] EXCEPT !.net = next, !.status = ShownStatus(s), !.known = TRUE]
  <2>b. ShownStatus(s) \in Statuses
    BY DEF ShownStatus, Statuses
  <2>0. new \in Record
    BY <1>0, <2>b, FollowedRecord DEF Requests
  <2>1. new.net = next /\ new.settled = res[e].settled
    BY <1>0 DEF Record
  <2>a. res' = [res EXCEPT ![e] = new]
    BY <1>0, <1>5 DEF Follow
  <2>2. page' = page \/ page' = [page EXCEPT !.status = ShownStatus(s)]
    BY <1>5 DEF Follow, OnStatusChange
  <2> QED
    BY <2>b, <2>0, <2>1, <2>a, <2>2, <1>4 DEF Requests
<1>13. ASSUME Forbid(e) PROVE Kept
  <2> DEFINE new == [res[e] EXCEPT !.net = "none", !.status = "unset", !.forbidden = TRUE]
  <2>1. new \in Record
    BY <1>0, ForbiddenRecord
  <2>2. new.net = "none" /\ new.forbidden /\ new.settled = res[e].settled
    BY <1>0 DEF Record
  <2>3. res' = [res EXCEPT ![e] = new]
    BY <1>0, <1>13 DEF Forbid
  <2>4. page' = page \/ page' = [page EXCEPT !.status = "unset"]
    BY <1>13 DEF Forbid, OnStatusChange
  <2> QED
    BY <2>1, <2>2, <2>3, <2>4, <1>4 DEF Statuses
<1>6. ASSUME PostAnswered(e) \/ CachedAnswered(e) PROVE Kept
  BY <1>2, <1>3, <1>5, <1>6, <1>13 DEF PostAnswered, CachedAnswered, HandleErrorResponse, Requests
<1>7. ASSUME PollFetched(e), job[e] # "gone" PROVE Kept
  <2> DEFINE snap == CASE e \in cancelled -> "cancelled" [] job[e] = "error" -> "error"
                       [] job[e] = "done" -> "result" [] OTHER -> "none"
  <2> DEFINE new == [res[e] EXCEPT !.net = "fetched", !.snap = snap]
  <2>0. snap \in Snapshots
    BY DEF Snapshots
  <2>1. new \in Record /\ new.net = "fetched" /\ new.settled = res[e].settled
    BY <1>0, <2>0, FetchedRecord DEF Record, Requests
  <2>a. res' = [res EXCEPT ![e] = new]
    BY <1>0, <1>7 DEF PollFetched
  <2> QED
    BY <2>1, <2>a, <1>4, <1>7 DEF PollFetched
<1>8. ASSUME PollAnswered(e) PROVE Kept
  <2>1. CASE Reject(e)
    BY <2>1, <1>3
  <2>2. CASE Follow(e, job[e], "timer")
    BY <2>2, <1>5 DEF Requests
  <2>3. CASE /\ res' = [res EXCEPT ![e].net = "load", ![e].status = "loading-result", ![e].tryCount = 0]
             /\ OnStatusChange(e, "loading-result")
    <3> DEFINE new == [res[e] EXCEPT !.net = "load", !.status = "loading-result", !.tryCount = 0]
    <3>a. 0 \in 0 .. MaxTryCount + 1
      BY BoundsAssumption
    <3>0. new \in Record
      BY <1>0, <3>a, LoadingRecord
    <3>1. new \in Record /\ new.net = "load" /\ new.settled = res[e].settled
      BY <1>0, <3>0 DEF Record
    <3>2. res' = [res EXCEPT ![e] = new]
      BY <1>0, <2>3
    <3> QED
      BY <3>1, <3>2, <1>4, <2>3 DEF OnStatusChange, Statuses
  <2> QED
    BY <1>8, <2>1, <2>2, <2>3 DEF PollAnswered
<1>9. ASSUME PollAgain(e) PROVE Kept
  <2> DEFINE new == [res[e] EXCEPT !.net = "poll"]
  <2>0. new \in Record
    BY <1>0, SentRecord DEF Requests
  <2>1. new \in Record /\ new.net = "poll" /\ new.settled = res[e].settled
    BY <1>0, <2>0 DEF Record
  <2>a. res' = [res EXCEPT ![e] = new]
    BY <1>0, <1>9 DEF PollAgain
  <2> QED
    BY <2>1, <2>a, <1>4, <1>9 DEF PollAgain
<1>10. ASSUME LoadFailed(e), res[e].tryCount <= MaxTryCount PROVE Kept
  <2> DEFINE new == [res[e] EXCEPT !.net = "backoff"]
  <2>0. new \in Record
    BY <1>0, SentRecord DEF Requests
  <2>1. /\ new \in Record /\ new.net = "backoff" /\ new.settled = res[e].settled
        /\ new.tryCount = res[e].tryCount
    BY <1>0, <2>0 DEF Record
  <2>a. res' = [res EXCEPT ![e] = new]
    BY <1>0, <1>10 DEF LoadFailed, Record
  <2>2. page' = page /\ new.tryCount <= MaxTryCount
    BY <2>1, <1>0, <1>10 DEF LoadFailed, Record
  <2> QED
    BY <2>0, <2>1, <2>2, <2>a, <1>4
<1>11. ASSUME LoadAgain(e) PROVE Kept
  <2> DEFINE tries == res[e].tryCount + 1
  <2> DEFINE new == [res[e] EXCEPT !.net = "load", !.tryCount = tries]
  <2>1. tries \in 0 .. MaxTryCount + 1
    BY <1>0, <1>11 DEF LoadAgain, Answered, ExecInv, TriesLeft, Record
  <2>2. new \in Record /\ new.net = "load" /\ new.settled = res[e].settled
    BY <1>0, <2>1, AgainRecord DEF Record
  <2>3. res' = [res EXCEPT ![e] = new]
    BY <1>0, <1>11 DEF LoadAgain
  <2> QED
    BY <2>2, <2>3, <1>4, <1>11 DEF LoadAgain, OnStatusChange, Statuses
<1>12. Kept
  <2>1. ASSUME PollFetched(e), job[e] = "gone" PROVE Kept
    BY <2>1, <1>3 DEF PollFetched
  <2>2. ASSUME LoadFailed(e), ~(res[e].tryCount <= MaxTryCount) PROVE Kept
    BY <2>2, <1>0, <1>3 DEF LoadFailed, Record
  <2>3. ASSUME LoadAnswered(e) \/ PollLost(e) PROVE Kept
    BY <2>3, <1>2, <1>3 DEF LoadAnswered, PollLost
  <2> QED
    BY <2>1, <2>2, <2>3, <1>6, <1>7, <1>8, <1>9, <1>10, <1>11 DEF Network
<1> QED
  BY <1>0, <1>1, <1>12 DEF Kept, ExecInv, ExecTypeOK, Record, Page

-----------------------------------------------------------------------------
(* A new execution is the last one. *)
LEMMA StartStep ==
  ASSUME ExecInv, page.mounted,
         NEW net \in Requests \ {"none", "backoff"}, NEW status \in Statuses, Start(net, status)
  PROVE  ExecInv'
<1> USE BoundsAssumption
<1> DEFINE e == started + 1
<1>1. /\ e \in Executions /\ started' = e /\ inExecution' = e
      /\ res[e] \in Record /\ res \in [Executions -> Record] /\ page \in Page
      /\ ~res[e].settled /\ started \in 0 .. MaxExecutions
  BY DEF Start, ExecInv, ExecTypeOK, RefIsLast, Record, Page, Executions
<1> DEFINE new == [res[e] EXCEPT !.net = net, !.status = status]
<1>2. new \in Record /\ new.net = net /\ ~new.settled
  BY <1>1, StartedRecord DEF Record
<1>3. res' = [res EXCEPT ![e] = new]
  BY <1>1 DEF Start
<1>4. /\ res' \in [Executions -> Record] /\ res'[e] = new
      /\ \A d \in Executions \ {e} : res'[d] = res[d]
  BY <1>1, <1>2, <1>3
<1>5. page' = [page EXCEPT !.isExecuting = TRUE, !.status = status]
  BY DEF Start
<1>6. page' \in Page /\ page'.mounted /\ page'.isExecuting
  BY <1>1, <1>5, WaitingPage DEF Page
<1>7. RefIsLast'
  BY <1>1, <1>4, <1>6 DEF RefIsLast, ExecInv, Executions
<1>8. WaitingIsBacked' /\ OnlyTheLastIsShown'
  BY <1>1, <1>2, <1>4, <1>6 DEF WaitingIsBacked, OnlyTheLastIsShown
<1>9. TriesLeft'
  BY <1>2, <1>4 DEF TriesLeft, ExecInv
<1> QED
  BY <1>1, <1>4, <1>6, <1>7, <1>8, <1>9 DEF Start, ExecInv, ExecTypeOK, Record, Page, Executions

LEMMA StartRejectedStep ==
  ASSUME ExecInv, page.mounted, StartRejected
  PROVE  ExecInv'
<1> USE BoundsAssumption
<1> DEFINE e == started + 1
<1>1. /\ e \in Executions /\ started' = e /\ inExecution' = e
      /\ res[e] \in Record /\ res \in [Executions -> Record] /\ page \in Page
      /\ res[e].net = "none" /\ started \in 0 .. MaxExecutions
  BY DEF StartRejected, ExecInv, ExecTypeOK, RefIsLast, Record, Page, Executions
<1> DEFINE new == [res[e] EXCEPT !.status = "failed", !.settled = TRUE]
<1>2. new \in Record /\ new.net = "none"
  BY <1>1, RejectedRecord DEF Record
<1>3. res' = [res EXCEPT ![e] = new]
  BY <1>1 DEF StartRejected
<1>4. /\ res' \in [Executions -> Record] /\ res'[e] = new
      /\ \A d \in Executions \ {e} : res'[d] = res[d]
  BY <1>1, <1>2, <1>3
<1>5. page' = [page EXCEPT !.result = e, !.loaded = TRUE, !.isExecuting = FALSE,
                           !.isCancelling = FALSE, !.status = "failed"]
  BY DEF StartRejected
<1>a. e \in 0 .. MaxExecutions
  BY <1>1 DEF Executions
<1>b. page' \in Page
  BY <1>1, <1>a, <1>5, ShownPage DEF Statuses
<1>6. page' \in Page /\ page'.mounted /\ ~page'.isExecuting /\ page'.result = e
  BY <1>1, <1>b, <1>5 DEF Page
<1>7. RefIsLast'
  BY <1>1, <1>4, <1>6 DEF RefIsLast, ExecInv, Executions
<1>8. TriesLeft' /\ WaitingIsBacked' /\ OnlyTheLastIsShown'
  BY <1>1, <1>2, <1>4, <1>6 DEF TriesLeft, ExecInv, WaitingIsBacked, OnlyTheLastIsShown
<1> QED
  BY <1>1, <1>4, <1>6, <1>7, <1>8 DEF StartRejected, ExecInv, ExecTypeOK, Record, Page, Executions

-----------------------------------------------------------------------------
LEMMA ExecInvStep ==
  ASSUME ExecInv, [ExecNext]_execVars
  PROVE  ExecInv'
<1>0. page \in Page
  BY DEF ExecInv, ExecTypeOK, Page
<1>1. ASSUME Open PROVE ExecInv'
  <2>1. ASSUME Start("cached", "loading-result") \/ Start("post", "waiting") PROVE ExecInv'
    BY <1>1, <2>1, StartStep DEF Open, Requests, Statuses
  <2>2. ASSUME page' = [page EXCEPT !.loaded = TRUE],
               UNCHANGED <<started, res, job, cancelled, inExecution>>
        PROVE  ExecInv'
    <3>1. /\ page' \in Page /\ page'.mounted = page.mounted
          /\ page'.isExecuting = page.isExecuting /\ page'.result = page.result
      BY <1>0, <2>2, LoadedPage DEF Page
    <3> QED
      BY <2>2, <3>1 DEF ExecInv, ExecTypeOK, Page, TriesLeft, RefIsLast, WaitingIsBacked,
                        OnlyTheLastIsShown
  <2> QED
    BY <1>1, <2>1, <2>2 DEF Open
<1>2. ASSUME ApplyParameters PROVE ExecInv'
  BY <1>2, StartStep, StartRejectedStep DEF ApplyParameters, Requests, Statuses
<1>3. ASSUME Cancel PROVE ExecInv'
  <2>1. /\ page' \in Page /\ page'.mounted = page.mounted
        /\ page'.isExecuting = page.isExecuting /\ page'.result = page.result
    BY <1>0, <1>3, CancellingPage DEF Cancel, Page
  <2>2. cancelled' \subseteq Executions
    BY <1>3, BoundsAssumption DEF Cancel, ExecInv, ExecTypeOK, Executions, WaitingIsBacked, RefIsLast
  <2> QED
    BY <1>3, <2>1, <2>2 DEF Cancel, ExecInv, ExecTypeOK, Page, TriesLeft, RefIsLast,
                            WaitingIsBacked, OnlyTheLastIsShown
<1>4. ASSUME Leave PROVE ExecInv'
  <2>1. page' \in Page /\ ~page'.mounted
    BY <1>0, <1>4, LeftPage DEF Leave, Page
  <2> QED
    BY <1>4, <2>1, BoundsAssumption
       DEF Leave, ExecInv, ExecTypeOK, Page, TriesLeft, RefIsLast, WaitingIsBacked,
           OnlyTheLastIsShown
<1>5. ASSUME NEW e \in Executions, JobRuns(e) \/ JobExpires(e) PROVE ExecInv'
  <2>1. job' \in [Executions -> JobStates]
    BY <1>5 DEF JobRuns, JobExpires, ExecInv, ExecTypeOK, JobStates
  <2> QED
    BY <1>5, <2>1 DEF JobRuns, JobExpires, ExecInv, ExecTypeOK, TriesLeft, RefIsLast,
                      WaitingIsBacked, OnlyTheLastIsShown
<1>6. CASE UNCHANGED execVars
  BY <1>6 DEF execVars, ExecInv, ExecTypeOK, TriesLeft, RefIsLast, WaitingIsBacked,
              OnlyTheLastIsShown
<1> QED
  BY <1>1, <1>2, <1>3, <1>4, <1>5, <1>6, NetworkStep DEF ExecNext, Execute

(* However the executions of a page overlap and whatever becomes of their   *)
(* requests, an idle page shows the last one's result or error, and a page  *)
(* that waits waits for a request or a timer of the last one.               *)
THEOREM LastExecutionIsShown ==
  ExecSpec => []ExecTypeOK /\ []OnlyTheLastIsShown /\ []WaitingIsBacked
<1>1. ExecInit => ExecInv
  BY BoundsAssumption DEF ExecInit, ExecInv, ExecTypeOK, Unused, Requests, Statuses, Snapshots,
     JobStates, TriesLeft, RefIsLast, WaitingIsBacked, OnlyTheLastIsShown
<1>2. ExecInv /\ [ExecNext]_execVars => ExecInv'
  BY ExecInvStep
<1>3. ExecInv => ExecTypeOK /\ OnlyTheLastIsShown /\ WaitingIsBacked
  BY DEF ExecInv
<1> QED
  BY <1>1, <1>2, <1>3, PTL DEF ExecSpec

-----------------------------------------------------------------------------
(* Saves.                                                                   *)

(* What a save sends has the text, and what other requests change in the    *)
(* stored query is not the text; only full saves create a query.            *)
RequestsAsMade ==
    \A r \in pageRequests :
        /\ IsFull(r) => "text" \in r.keys
        /\ r.kind = "update" => "text" \notin r.keys /\ ~r.creates

(* Saves overlap only when the history says so.                             *)
OneFullSave == ~overlapped => \A r, s \in pageRequests : IsFull(r) /\ IsFull(s) => r = s

(* The text that counts as saved is stored until a save is carried out,     *)
(* which then stores what its answer will make count.                       *)
OriginalIsStored ==
    ~overlapped /\ ~lost =>
        /\ (\A r \in pageRequests : IsFull(r) => ~r.done) => originalSource = row["text"]
        /\ \A r \in pageRequests : IsFull(r) /\ r.done => r.data["text"] = row["text"]

SavesInv ==
    /\ QueryPageTypeOK /\ IsFiniteSet(pageRequests)
    /\ RequestsAsMade /\ OneFullSave /\ OriginalIsStored

Made == [kind : {"save", "parameters", "update", "format"}, keys : SUBSET Fields,
         data : Versions, base : Versions, creates : BOOLEAN, done : BOOLEAN]

LEMMA OneMore ==
  ASSUME NEW S, IsFiniteSet(S), NEW x
  PROVE  /\ Cardinality(S) \in Nat
         /\ IsFiniteSet(S \union {x}) /\ Cardinality(S \union {x}) \in Nat
         /\ Cardinality(S \union {x}) <= Cardinality(S) + 1
<1>1. Cardinality(S) \in Nat
  BY FS_CardinalityType
<1>2. /\ IsFiniteSet(S \union {x})
      /\ Cardinality(S \union {x}) = IF x \in S THEN Cardinality(S) ELSE Cardinality(S) + 1
  BY FS_AddElement
<1>3. CASE x \in S
  BY <1>1, <1>2, <1>3
<1>4. CASE x \notin S
  BY <1>1, <1>2, <1>4
<1> QED
  BY <1>3, <1>4

(* A request that a page sends without changing what is stored.             *)
LEMMA SubmitKeepsSaves ==
  ASSUME SavesInv, NEW r \in Made, Submit(r), ~r.done,
         IsFull(r) => "text" \in r.keys, r.kind = "update" => "text" \notin r.keys /\ ~r.creates,
         query' \in Versions, edits' \in Values, querySaving' \in BOOLEAN
  PROVE  SavesInv'
<1>1. IsFiniteSet(pageRequests') /\ Cardinality(pageRequests') <= MaxInFlight
  <2>1. Cardinality(pageRequests) \in Nat /\ Cardinality(pageRequests) < MaxInFlight
    BY FS_CardinalityType DEF SavesInv, Submit
  <2>2. IsFiniteSet(pageRequests) /\ pageRequests' = pageRequests \union {r}
    BY DEF SavesInv, Submit
  <2>3. IsFiniteSet(pageRequests \union {r})
        /\ Cardinality(pageRequests \union {r}) <= Cardinality(pageRequests) + 1
    BY <2>2, OneMore
  <2>4. Cardinality(pageRequests \union {r}) \in Nat
    BY <2>2, OneMore
  <2> QED
    BY <2>1, <2>2, <2>3, <2>4, QueryPageAssumption
<1>2. QueryPageTypeOK'
  BY <1>1 DEF SavesInv, Submit, QueryPageTypeOK, Made
<1>3. RequestsAsMade'
  BY DEF SavesInv, Submit, RequestsAsMade, IsFull
<1>4. OneFullSave' /\ OriginalIsStored'
  BY DEF SavesInv, Submit, OneFullSave, OriginalIsStored, IsFull
<1> QED
  BY <1>1, <1>2, <1>3, <1>4 DEF SavesInv

(* What a step on the page alone may change.                                *)
LEMMA CopyKeepsSaves ==
  ASSUME SavesInv, query' \in Versions, edits' \in Values,
         UNCHANGED <<isNew, originalSource, querySaving, pageRequests, row, overlapped, lost>>
  PROVE  SavesInv'
BY DEF SavesInv, QueryPageTypeOK, RequestsAsMade, OneFullSave, OriginalIsStored, IsFull

LEMMA EditedCopies ==
  ASSUME QueryPageTypeOK, NextEdit
  PROVE  edits' \in Values /\ \A keys : Edited(keys) \in Versions
BY QueryPageAssumption DEF QueryPageTypeOK, NextEdit, Edited, Versions, Values

LEMMA MadeRequests ==
  ASSUME QueryPageTypeOK, NEW kind \in {"save", "parameters", "update", "format"},
         NEW keys \in SUBSET Fields, NEW data \in Versions
  PROVE  /\ Request(kind, keys, data) \in Made /\ ~Request(kind, keys, data).done
         /\ Request(kind, keys, data).kind = kind /\ Request(kind, keys, data).keys = keys
         /\ Request(kind, keys, data).creates = isNew
BY DEF QueryPageTypeOK, Request, Made

(* Requests for a field that is not the text.                               *)
LEMMA UpdatesKeepSaves ==
  ASSUME SavesInv, NEW keys \in SUBSET Fields, "text" \notin keys, UpdateQuery(keys)
  PROVE  SavesInv'
<1>1. QueryPageTypeOK
  BY DEF SavesInv
<1>2. CASE isNew
  BY <1>1, <1>2, EditedCopies, CopyKeepsSaves DEF UpdateQuery, ChangeCopy
<1>3. CASE ~isNew
  <2>1. NextEdit /\ Submit(Request("update", keys, Edited(keys))) /\ UNCHANGED <<query, querySaving>>
    BY <1>3 DEF UpdateQuery
  <2>2. edits' \in Values /\ Edited(keys) \in Versions
    BY <1>1, <2>1, EditedCopies
  <2>3. query' \in Versions /\ querySaving' \in BOOLEAN
    BY <1>1, <2>1 DEF QueryPageTypeOK
  <2>4. ~IsFull(Request("update", keys, Edited(keys)))
    BY DEF IsFull, Request
  <2> QED
    BY <1>1, <1>3, <2>1, <2>2, <2>3, <2>4, MadeRequests, SubmitKeepsSaves
<1> QED
  BY <1>2, <1>3

LEMMA EditsKeepSaves ==
  ASSUME SavesInv,
         Type \/ AddParameter \/ EditParameter \/ FormatQuery \/ Save \/ ChangeDataSource
  PROVE  SavesInv'
<1>0. QueryPageTypeOK
  BY DEF SavesInv
<1>1. CASE Type \/ AddParameter
  <2>1. ASSUME NEW keys, ChangeCopy(keys) PROVE SavesInv'
    BY <1>0, <2>1, EditedCopies, CopyKeepsSaves DEF ChangeCopy
  <2>2. ASSUME NextEdit, NEW typed \in 0 .. edits, query' = [query EXCEPT !["text"] = typed],
               UNCHANGED <<isNew, originalSource, querySaving, pageRequests, row, overlapped, lost>>
        PROVE  SavesInv'
    <3>1. typed \in Values
      BY <1>0, <2>2, QueryPageAssumption DEF QueryPageTypeOK, Values
    <3>2. query' \in Versions
      BY <1>0, <2>2, <3>1 DEF QueryPageTypeOK, Versions
    <3> QED
      BY <1>0, <2>2, <3>2, EditedCopies, CopyKeepsSaves
  <2> QED
    BY <1>1, <2>1, <2>2 DEF Type, AddParameter
<1>2. CASE EditParameter
  <2>1. NextEdit /\ query' = Edited({"options"}) /\ UNCHANGED querySaving
    BY <1>2 DEF EditParameter
  <2>2. edits' \in Values /\ query' \in Versions /\ querySaving' \in BOOLEAN
    BY <1>0, <2>1, EditedCopies DEF QueryPageTypeOK
  <2>3. CASE isDirty
    BY <1>2, <2>2, <2>3, CopyKeepsSaves DEF EditParameter
  <2>4. CASE ~isDirty
    <3> DEFINE r == [Request("parameters", StoredFields, query') EXCEPT !.base = query']
    <3>1. Submit(r)
      BY <1>2, <2>4 DEF EditParameter
    <3>2. r \in Made /\ ~r.done /\ r.keys = StoredFields /\ r.kind = "parameters"
      BY <1>0, <2>2 DEF Request, Made, QueryPageTypeOK, Fields
    <3>3. "text" \in StoredFields
      BY DEF StoredFields
    <3> QED
      BY <2>2, <3>1, <3>2, <3>3, SubmitKeepsSaves
  <2> QED
    BY <2>3, <2>4
<1>3. CASE FormatQuery
  <2>1. NextEdit /\ Submit(Request("format", {"text"}, Edited({"text"}))) /\ UNCHANGED <<query, querySaving>>
    BY <1>3 DEF FormatQuery
  <2>2. edits' \in Values /\ Edited({"text"}) \in Versions /\ query' \in Versions
        /\ querySaving' \in BOOLEAN /\ {"text"} \in SUBSET Fields
    BY <1>0, <2>1, EditedCopies DEF QueryPageTypeOK, Fields, StoredFields
  <2>3. ~IsFull(Request("format", {"text"}, Edited({"text"})))
    BY DEF IsFull, Request
  <2> QED
    BY <1>0, <2>1, <2>2, <2>3, MadeRequests, SubmitKeepsSaves
<1>4. CASE Save
  <2>1. Submit(Request("save", StoredFields, query)) /\ UNCHANGED <<query, edits>> /\ querySaving' = TRUE
    BY <1>4 DEF Save
  <2>2. query \in Versions /\ edits' \in Values /\ query' \in Versions /\ StoredFields \in SUBSET Fields
        /\ "text" \in StoredFields
    BY <1>0, <2>1 DEF QueryPageTypeOK, Fields, StoredFields
  <2> QED
    BY <1>0, <2>1, <2>2, MadeRequests, SubmitKeepsSaves
<1>5. CASE ChangeDataSource
  <2> DEFINE keys == {"data_source_id"}
             r == Request("update", keys, Edited(keys))
  <2>1. CASE isNew
    BY <1>0, <1>5, <2>1, EditedCopies, CopyKeepsSaves DEF ChangeDataSource, ChangeCopy
  <2>2. CASE ~isNew
    <3>1. NextEdit /\ query' = Edited(keys) /\ Submit(r) /\ UNCHANGED querySaving
      BY <1>5, <2>2 DEF ChangeDataSource
    <3>2. edits' \in Values /\ Edited(keys) \in Versions /\ query' \in Versions
          /\ querySaving' \in BOOLEAN /\ keys \in SUBSET Fields /\ "text" \notin keys
      BY <1>0, <3>1, EditedCopies DEF QueryPageTypeOK, Fields, StoredFields
    <3>3. ~IsFull(r)
      BY DEF IsFull, Request
    <3> QED
      BY <1>0, <2>2, <3>1, <3>2, <3>3, MadeRequests, SubmitKeepsSaves
  <2> QED
    BY <2>1, <2>2
<1> QED
  BY <1>1, <1>2, <1>3, <1>4, <1>5

(* The server and the answers. *)
LEMMA AnswersKeepSaves ==
  ASSUME SavesInv, NEW r \in pageRequests, CarryOut(r) \/ Answer(r) \/ Fail(r)
  PROVE  SavesInv'
<1>0. QueryPageTypeOK /\ r.kind \in {"save", "parameters", "update", "format"}
      /\ r.data \in Versions /\ r.base \in Versions
  BY DEF SavesInv, QueryPageTypeOK
<1> DEFINE carried == [r EXCEPT !.done = TRUE]
           rest == pageRequests \ {r}
<1>1. /\ IsFiniteSet(rest) /\ IsFiniteSet(rest \union {carried})
      /\ Cardinality(rest) <= MaxInFlight /\ Cardinality(rest \union {carried}) <= MaxInFlight
  <2>1. IsFiniteSet(pageRequests) /\ Cardinality(pageRequests) \in Nat
        /\ Cardinality(pageRequests) <= MaxInFlight
    BY FS_CardinalityType DEF SavesInv, QueryPageTypeOK
  <2>2. IsFiniteSet(rest) /\ Cardinality(rest) = Cardinality(pageRequests) - 1
    BY <2>1, FS_RemoveElement
  <2>3. IsFiniteSet(rest \union {carried}) /\ Cardinality(rest \union {carried}) <= Cardinality(rest) + 1
        /\ Cardinality(rest \union {carried}) \in Nat
    BY <2>2, OneMore
  <2> HIDE DEF rest, carried
  <2> QED
    BY <2>1, <2>2, <2>3, QueryPageAssumption
<1>2. CASE CarryOut(r)
  <2>1. /\ ~r.done /\ pageRequests' = rest \union {carried}
        /\ UNCHANGED <<query, isNew, originalSource, querySaving, edits, overlapped, lost>>
    BY <1>2 DEF CarryOut
  <2>2. /\ carried.kind = r.kind /\ carried.keys = r.keys /\ carried.data = r.data
        /\ carried.base = r.base /\ carried.creates = r.creates /\ carried.done
    BY <1>0 DEF QueryPageTypeOK
  <2>3. row' \in Versions /\ (IsFull(r) => row'["text"] = r.data["text"])
        /\ (~IsFull(r) => row'["text"] = row["text"])
    <3>1. "text" \in Fields /\ 0 \in Values
      BY QueryPageAssumption DEF Fields, StoredFields, Values
    <3>2. (IsFull(r) => "text" \in r.keys) /\ (r.kind = "update" => "text" \notin r.keys /\ ~r.creates)
      BY DEF SavesInv, RequestsAsMade
    <3>3. CASE r.kind = "format"
      BY <1>0, <1>2, <3>3 DEF CarryOut, QueryPageTypeOK, IsFull
    <3>4. CASE r.kind # "format"
      <4>1. row' = [f \in Fields |-> IF f \in r.keys THEN r.data[f]
                                     ELSE IF r.creates THEN 0 ELSE row[f]]
        BY <1>2, <3>4 DEF CarryOut
      <4>2. row' \in Versions
        BY <1>0, <3>1, <4>1 DEF QueryPageTypeOK, Versions
      <4> QED
        BY <1>0, <3>1, <3>2, <3>4, <4>1, <4>2 DEF IsFull
    <3> QED
      BY <3>3, <3>4
  <2>4. QueryPageTypeOK'
    BY <1>0, <1>1, <2>1, <2>2, <2>3 DEF QueryPageTypeOK
  <2>5. RequestsAsMade' /\ OneFullSave'
    BY <2>1, <2>2 DEF SavesInv, RequestsAsMade, OneFullSave, IsFull
  <2>6. OriginalIsStored'
    BY <2>1, <2>2, <2>3 DEF SavesInv, OneFullSave, OriginalIsStored, IsFull
  <2> QED
    BY <1>1, <2>1, <2>4, <2>5, <2>6 DEF SavesInv
<1>3. CASE Answer(r)
  <2>1. /\ r.done /\ pageRequests' = rest /\ query' = Merged(r) /\ originalSource' = NewOriginal(r)
        /\ isNew' \in BOOLEAN /\ querySaving' \in BOOLEAN /\ UNCHANGED <<row, edits, overlapped, lost>>
    BY <1>0, <1>3 DEF Answer, SaveEnded, QueryPageTypeOK
  <2>2. "text" \in Fields /\ 0 \in Values
    BY QueryPageAssumption DEF Fields, StoredFields, Values
  <2>3. Merged(r) \in Versions
    BY <1>0, <2>2 DEF Merged, Versions
  <2>4. originalSource' \in Values
    BY <1>0, <2>1, <2>2, <2>3 DEF NewOriginal, QueryPageTypeOK, Versions
  <2>5. QueryPageTypeOK'
    BY <1>0, <1>1, <2>1, <2>3, <2>4 DEF QueryPageTypeOK
  <2>6. RequestsAsMade' /\ OneFullSave'
    BY <2>1 DEF SavesInv, RequestsAsMade, OneFullSave, IsFull
  <2>7. IsFull(r) => originalSource' = r.data["text"]
    BY <2>1, <2>2 DEF SavesInv, RequestsAsMade, NewOriginal, Merged
  <2>8. ~IsFull(r) => originalSource' = originalSource
    BY <2>1 DEF NewOriginal
  <2>9. OriginalIsStored'
    BY <2>1, <2>7, <2>8 DEF SavesInv, OneFullSave, OriginalIsStored, IsFull
  <2> QED
    BY <1>1, <2>1, <2>5, <2>6, <2>9 DEF SavesInv
<1>4. CASE Fail(r)
  <2>1. /\ pageRequests' = rest /\ lost' = (lost \/ r.done) /\ querySaving' \in BOOLEAN
        /\ UNCHANGED <<query, isNew, originalSource, row, edits, overlapped>>
    BY <1>0, <1>4 DEF Fail, SaveEnded, QueryPageTypeOK
  <2>2. QueryPageTypeOK'
    BY <1>0, <1>1, <2>1 DEF QueryPageTypeOK
  <2>3. RequestsAsMade' /\ OneFullSave' /\ OriginalIsStored'
    BY <1>0, <2>1 DEF SavesInv, QueryPageTypeOK, RequestsAsMade, OneFullSave, OriginalIsStored, IsFull
  <2> QED
    BY <1>1, <2>1, <2>2, <2>3 DEF SavesInv
<1> QED
  BY <1>2, <1>3, <1>4

LEMMA SavesInitInv == QueryPageInit => SavesInv
<1> SUFFICES ASSUME QueryPageInit PROVE SavesInv
  OBVIOUS
<1>1. query \in Versions /\ row \in Versions /\ 0 \in Values /\ "text" \in Fields
  BY QueryPageAssumption DEF QueryPageInit, Versions, Values, Fields, StoredFields
<1>2. IsFiniteSet(pageRequests) /\ Cardinality(pageRequests) = 0
  BY FS_EmptySet DEF QueryPageInit
<1>3. QueryPageTypeOK
  <2>1. {isNew, querySaving, overlapped, lost} \subseteq BOOLEAN
    BY Zenon DEF QueryPageInit
  <2>2. Cardinality(pageRequests) <= MaxInFlight
    BY <1>2, QueryPageAssumption
  <2> QED
    BY <1>1, <2>1, <2>2, Zenon DEF QueryPageInit, QueryPageTypeOK
<1>4. RequestsAsMade /\ OneFullSave
  BY DEF QueryPageInit, RequestsAsMade, OneFullSave
<1>5. OriginalIsStored
  BY <1>1 DEF QueryPageInit, OriginalIsStored
<1> QED
  BY <1>2, <1>3, <1>4, <1>5 DEF SavesInv

LEMMA SavesStep == SavesInv /\ [QueryPageNext]_queryVars => SavesInv'
<1> SUFFICES ASSUME SavesInv, [QueryPageNext]_queryVars PROVE SavesInv'
  OBVIOUS
<1>1. CASE Rename \/ UpdateDescription \/ UpdateTags \/ EditSchedule \/ Publish \/ Unpublish
           \/ ArchiveQuery \/ EditVisualization \/ DeleteVisualization
  <2>1. PICK keys \in {{"name"}, {"name", "is_draft"}, {"description"}, {"tags"}, {"schedule"},
                       {"is_draft"}, {"is_archived", "schedule"}, {"visualizations"}} :
           UpdateQuery(keys)
    BY <1>1 DEF Rename, UpdateDescription, UpdateTags, EditSchedule, Publish, Unpublish,
                ArchiveQuery, EditVisualization, DeleteVisualization
  <2>2. keys \in SUBSET Fields /\ "text" \notin keys
    BY <2>1 DEF Fields, StoredFields
  <2> QED
    BY <2>1, <2>2, UpdatesKeepSaves
<1>2. CASE Type \/ AddParameter \/ EditParameter \/ FormatQuery \/ Save \/ ChangeDataSource
  BY <1>2, EditsKeepSaves
<1>3. ASSUME NEW r \in pageRequests, CarryOut(r) \/ Answer(r) \/ Fail(r) PROVE SavesInv'
  BY <1>3, AnswersKeepSaves
<1>4. CASE UNCHANGED queryVars
  BY <1>4 DEF queryVars, SavesInv, QueryPageTypeOK, RequestsAsMade, OneFullSave, OriginalIsStored, IsFull
<1> QED
  BY <1>1, <1>2, <1>3, <1>4 DEF QueryPageNext

(* A text that counts as saved, and that useUnsavedChangesAlert lets go, is *)
(* the stored one in every order of edits, saves, renames and answers.      *)
THEOREM WhatIsCleanIsSaved == QueryPageSpec => []QueryPageTypeOK /\ []CleanMeansSaved
<1>1. SavesInv => QueryPageTypeOK /\ CleanMeansSaved
  BY DEF SavesInv, OriginalIsStored, CleanMeansSaved, isDirty
<1> QED
  BY <1>1, SavesInitInv, SavesStep, PTL DEF QueryPageSpec

-----------------------------------------------------------------------------
(* Parameters.                                                              *)

\* A request to save carries what the page had.
SavingTypeOK ==
    /\ saving.kind \in {"save", "rename"} => saving.text \in Texts
    /\ saving.kind = "save" =>
          saving.parameters \subseteq ParamNames /\ saving.value \in [ParamNames -> ParameterValues]

TypesOK == ParametersTypeOK /\ SavingTypeOK

FlagIsSet == HasPending(parameters, pending, value) => dirtyFlag
FlagIsBacked == dirtyFlag /\ ~settingsEdited => HasPending(parameters, pending, value)
UrlAgrees == ~disableUrlUpdate /\ ~settingsEdited => \A p \in parameters : url[p] = value[p]

ParametersInv == TypesOK /\ FlagIsSet /\ FlagIsBacked /\ UrlAgrees

-----------------------------------------------------------------------------

(* The parameters a text mentions are names, and so are those of a text    *)
(* that cannot be parsed: the ones there were.                             *)
LEMMA ParsedNamesAreNames ==
    ASSUME TypesOK, NEW t \in Texts
    PROVE  ParsedNames(t) \subseteq ParamNames
BY SMT DEF TypesOK, ParametersTypeOK, ParsedNames, Texts

(* updateUrl writes the values of the parameters that are shown, unless    *)
(* the query is new.                                                       *)
LEMMA UrlFollows ==
    ASSUME TypesOK, NEW ps, ps \subseteq ParamNames, NEW d \in BOOLEAN,
           NEW val, val \in [ParamNames -> ParameterValues], UpdateUrl(d, ps, val)
    PROVE  /\ url' \in [ParamNames -> ParameterValues]
           /\ ~d => \A p \in ps : url'[p] = val[p]
BY SMT DEF TypesOK, ParametersTypeOK, UpdateUrl

(* A clone of the query has its flag and its URL by its own parameters.    *)
LEMMA ClonesAgree ==
    ASSUME TypesOK, NEW ps, ps \subseteq ParamNames, SetQuery(ps)
    PROVE  /\ parameters' \subseteq ParamNames
           /\ value' \in [ParamNames -> ParameterValues]
           /\ pending' \in [ParamNames -> ParameterValues \union {"none"}]
           /\ url' \in [ParamNames -> ParameterValues]
           /\ dirtyFlag' \in BOOLEAN
           /\ settingsEdited' \in BOOLEAN
           /\ dirtyFlag' <=> HasPending(parameters', pending', value')
           /\ ~disableUrlUpdate => \A p \in parameters' : url'[p] = value'[p]
<1>1. parameters' = ps
  BY DEF SetQuery
<1>2. value' \in [ParamNames -> ParameterValues]
  <2>1. \A p \in ParamNames : ClonedValue(p) \in ParameterValues
    BY SMT DEF TypesOK, ParametersTypeOK, ClonedValue
  <2>2. "null" \in ParameterValues
    BY DEF ParameterValues
  <2> QED
    BY <2>1, <2>2, SMT DEF SetQuery
<1>3. pending' \in [ParamNames -> ParameterValues \union {"none"}]
  <2>1. \A p \in ParamNames : ClonedPending(p) \in ParameterValues \union {"none"}
    BY SMT DEF TypesOK, ParametersTypeOK, ClonedPending
  <2> QED
    BY <2>1, SMT DEF SetQuery
<1>4. UpdateUrl(disableUrlUpdate, ps, value')
  BY DEF SetQuery
<1>5. disableUrlUpdate \in BOOLEAN
  BY DEF TypesOK, ParametersTypeOK
<1>6. /\ url' \in [ParamNames -> ParameterValues]
      /\ ~disableUrlUpdate => \A p \in ps : url'[p] = value'[p]
  BY <1>2, <1>4, <1>5, UrlFollows
<1>7. dirtyFlag' = HasPending(ps, pending', value')
  BY DEF SetQuery, FlagOf
<1>8. settingsEdited' = FALSE
  BY DEF SetQuery
<1> QED
  <2>1. dirtyFlag' \in BOOLEAN /\ (dirtyFlag' <=> HasPending(ps, pending', value'))
    BY <1>7, Zenon DEF HasPending
  <2> QED
    BY <1>1, <1>2, <1>3, <1>6, <1>8, <2>1

LEMMA ClonesKeepInv ==
    ASSUME TypesOK, NEW ps, ps \subseteq ParamNames, SetQuery(ps),
           disableUrlUpdate' = disableUrlUpdate, TypesOK'
    PROVE  ParametersInv'
BY ClonesAgree DEF ParametersInv, FlagIsSet, FlagIsBacked, UrlAgrees

-----------------------------------------------------------------------------

LEMMA ParametersInitInv == ParametersInit => ParametersInv
<1> SUFFICES ASSUME ParametersInit PROVE ParametersInv
  OBVIOUS
<1>0. /\ disableUrlUpdate \in BOOLEAN /\ text \in SUBSET ParamNames /\ originalText = text
      /\ parameters = text /\ url \in [ParamNames -> ParameterValues]
      /\ value = [p \in ParamNames |-> IF p \in parameters THEN url[p] ELSE "null"]
      /\ pending = [p \in ParamNames |-> "none"]
      /\ dirtyFlag = FALSE /\ saving = NoRequest /\ settingsEdited = FALSE
  BY DEF ParametersInit
<1>1. text \in Texts /\ originalText \in Texts /\ parameters \subseteq ParamNames
  BY <1>0 DEF Texts
<1>2. value \in [ParamNames -> ParameterValues]
  BY <1>0, SMT DEF ParameterValues
<1>3. ASSUME NEW p \in parameters
      PROVE  url[p] = value[p] /\ pending[p] = "none"
  <2>1. p \in ParamNames
    BY <1>1
  <2>2. value[p] = IF p \in parameters THEN url[p] ELSE "null"
    BY <1>0, <2>1
  <2>3. pending[p] = "none"
    BY <1>0, <2>1
  <2> QED
    BY <2>2, <2>3
<1>4. ~HasPending(parameters, pending, value)
  BY <1>3, Zenon DEF HasPending
<1>5. SavingTypeOK /\ saving.kind \in {"none", "save", "rename"}
  BY <1>0, SMT DEF SavingTypeOK, NoRequest
<1>6. pending \in [ParamNames -> ParameterValues \union {"none"}]
  BY <1>0
<1>7. TypesOK
  BY <1>0, <1>1, <1>2, <1>5, <1>6 DEF TypesOK, ParametersTypeOK
<1> QED
  BY <1>0, <1>3, <1>4, <1>7 DEF ParametersInv, FlagIsSet, FlagIsBacked, UrlAgrees

(* onParametersEdit sends what the page has, or nothing. *)
LEMMA EditsAreSaved ==
    ASSUME TypesOK, NEW val, val \in [ParamNames -> ParameterValues], SaveIfClean(val)
    PROVE  SavingTypeOK' /\ saving'.kind \in {"none", "save", "rename"}
<1>1. CASE saving' = saving
  BY <1>1, SMT DEF TypesOK, ParametersTypeOK, SavingTypeOK
<1>2. CASE saving' = SaveRequest(val)
  BY <1>2, SMT DEF TypesOK, ParametersTypeOK, SavingTypeOK, SaveRequest
<1> QED
  BY <1>1, <1>2 DEF SaveIfClean

-----------------------------------------------------------------------------

LEMMA ParametersStep == ParametersInv /\ [ParametersNext]_parametersVars => ParametersInv'
<1> SUFFICES ASSUME ParametersInv, [ParametersNext]_parametersVars PROVE ParametersInv'
  OBVIOUS
<1>t. TypesOK
  BY DEF ParametersInv
<1>1. CASE TypeText
  <2>1. PICK t \in Texts \ {text} : text' = t /\ SetQuery(ParsedNames(t))
    BY <1>1 DEF TypeText
  <2>2. ParsedNames(t) \subseteq ParamNames
    BY <1>t, ParsedNamesAreNames
  <2>3. TypesOK'
    BY <1>1, <1>t, <2>1, <2>2, ClonesAgree, SMT
       DEF TypeText, TypesOK, ParametersTypeOK, SavingTypeOK
  <2> QED
    BY <1>1, <1>t, <2>1, <2>2, <2>3, ClonesKeepInv DEF TypeText
<1>2. CASE AddNewParameter
  <2>1. PICK p \in ParamNames \ parameters : SetQuery(parameters \union {p})
    BY <1>2 DEF AddNewParameter
  <2>2. parameters \union {p} \subseteq ParamNames
    BY <1>t DEF TypesOK, ParametersTypeOK
  <2>3. TypesOK'
    BY <1>2, <1>t, <2>1, <2>2, ClonesAgree, SMT
       DEF AddNewParameter, TypesOK, ParametersTypeOK, SavingTypeOK
  <2> QED
    BY <1>2, <1>t, <2>1, <2>2, <2>3, ClonesKeepInv DEF AddNewParameter
<1>3. CASE SetPendingValue
  <2>1. pending' \in [ParamNames -> ParameterValues \union {"none"}]
    BY <1>3, <1>t, SMT DEF SetPendingValue, TypesOK, ParametersTypeOK
  <2>2. dirtyFlag' \in BOOLEAN /\ (dirtyFlag' <=> HasPending(parameters, pending', value))
    BY <1>3, Zenon DEF SetPendingValue, HasPending
  <2>3. UNCHANGED <<disableUrlUpdate, text, originalText, parameters, value, url, saving,
                    settingsEdited>>
    BY <1>3 DEF SetPendingValue
  <2>4. TypesOK'
    BY <1>t, <2>1, <2>2, <2>3 DEF TypesOK, ParametersTypeOK, SavingTypeOK, Texts
  <2>5. UrlAgrees'
    BY <2>3 DEF ParametersInv, UrlAgrees
  <2>6. HasPending(parameters, pending', value) <=> HasPending(parameters', pending', value')
    BY <2>3
  <2> QED
    BY <2>2, <2>4, <2>5, <2>6 DEF ParametersInv, FlagIsSet, FlagIsBacked
<1>4. CASE ApplyChanges
  <2>1. value' \in [ParamNames -> ParameterValues]
    BY <1>4, <1>t, SMT DEF ApplyChanges, TypesOK, ParametersTypeOK
  <2>2. pending' = [p \in ParamNames |-> "none"]
    BY <1>4 DEF ApplyChanges
  <2>3. UNCHANGED <<disableUrlUpdate, text, originalText, parameters, saving, settingsEdited>>
    BY <1>4 DEF ApplyChanges
  <2>4. dirtyFlag' = FALSE /\ UpdateUrl(disableUrlUpdate, parameters, value')
    BY <1>4 DEF ApplyChanges
  <2>5. disableUrlUpdate \in BOOLEAN /\ parameters \subseteq ParamNames
    BY <1>t DEF TypesOK, ParametersTypeOK
  <2>6. /\ url' \in [ParamNames -> ParameterValues]
        /\ ~disableUrlUpdate => \A p \in parameters : url'[p] = value'[p]
    BY <1>t, <2>1, <2>4, <2>5, UrlFollows
  <2>7. TypesOK'
    BY <1>t, <2>1, <2>2, <2>3, <2>4, <2>6 DEF TypesOK, ParametersTypeOK, SavingTypeOK, Texts
  <2>8. ~HasPending(parameters', pending', value')
    BY <2>2, <2>3, <2>5, SMT DEF HasPending
  <2>9. UrlAgrees'
    BY <2>3, <2>6 DEF UrlAgrees
  <2> QED
    BY <2>4, <2>7, <2>8, <2>9 DEF ParametersInv, FlagIsSet, FlagIsBacked
<1>5. CASE EditSettings
  <2>1. PICK p \in parameters, v \in ParameterValues :
           /\ v \in {value[p], "null"}
           /\ value' = [value EXCEPT ![p] = v]
           /\ pending' = [pending EXCEPT ![p] = "none"]
    BY <1>5 DEF EditSettings
  <2>2. settingsEdited' = TRUE /\ SaveIfClean(value')
    BY <1>5 DEF EditSettings
  <2>3. UNCHANGED <<disableUrlUpdate, text, originalText, parameters, url, dirtyFlag>>
    BY <1>5 DEF EditSettings
  <2>4. /\ value' \in [ParamNames -> ParameterValues]
        /\ pending' \in [ParamNames -> ParameterValues \union {"none"}]
    BY <1>t, <2>1, SMT DEF TypesOK, ParametersTypeOK
  <2>5. SavingTypeOK' /\ saving'.kind \in {"none", "save", "rename"}
    BY <1>t, <2>2, <2>4, EditsAreSaved
  <2>6. TypesOK'
    BY <1>t, <2>2, <2>3, <2>4, <2>5 DEF TypesOK, ParametersTypeOK, Texts
  <2>7. ASSUME HasPending(parameters', pending', value')
        PROVE  HasPending(parameters, pending, value)
    <3>1. PICK q \in parameters' : pending'[q] # "none" /\ pending'[q] # value'[q]
      BY <2>7 DEF HasPending
    <3>2. q \in parameters /\ q \in ParamNames /\ p \in ParamNames
      BY <1>t, <2>3, <3>1 DEF TypesOK, ParametersTypeOK
    <3>3. q # p
      BY <1>t, <2>1, <3>1, <3>2, SMT DEF TypesOK, ParametersTypeOK
    <3>4. pending'[q] = pending[q] /\ value'[q] = value[q]
      BY <1>t, <2>1, <3>2, <3>3, SMT DEF TypesOK, ParametersTypeOK
    <3> QED
      BY <3>1, <3>2, <3>4 DEF HasPending
  <2>8. FlagIsSet'
    BY <2>3, <2>7 DEF ParametersInv, FlagIsSet
  <2> QED
    BY <2>2, <2>6, <2>8 DEF ParametersInv, FlagIsBacked, UrlAgrees
<1>6. CASE MoveParameter
  <2>1. UNCHANGED <<disableUrlUpdate, text, originalText, parameters, value, pending, url,
                    dirtyFlag, settingsEdited>>
    BY <1>6 DEF MoveParameter
  <2>2. SavingTypeOK' /\ saving'.kind \in {"none", "save", "rename"}
    BY <1>6, <1>t, EditsAreSaved DEF MoveParameter, TypesOK, ParametersTypeOK
  <2>3. TypesOK'
    BY <1>t, <2>1, <2>2 DEF TypesOK, ParametersTypeOK, Texts
  <2> QED
    BY <2>1, <2>3 DEF ParametersInv, FlagIsSet, FlagIsBacked, UrlAgrees, HasPending
<1>7. CASE SendSave
  <2>1. UNCHANGED <<disableUrlUpdate, text, originalText, parameters, value, pending, url,
                    dirtyFlag, settingsEdited>>
    BY <1>7 DEF SendSave
  <2>2. saving' = SaveRequest(value) \/ saving' = [kind |-> "rename", text |-> text]
    BY <1>7 DEF SendSave
  <2>3. SavingTypeOK' /\ saving'.kind \in {"none", "save", "rename"}
    BY <1>t, <2>2, SMT DEF TypesOK, ParametersTypeOK, SavingTypeOK, SaveRequest
  <2>4. TypesOK'
    BY <1>t, <2>1, <2>3 DEF TypesOK, ParametersTypeOK, Texts
  <2> QED
    BY <2>1, <2>4 DEF ParametersInv, FlagIsSet, FlagIsBacked, UrlAgrees, HasPending
<1>8. CASE SavedAnswered
  <2>1. /\ saving.text \in Texts /\ saving.parameters \subseteq ParamNames
        /\ saving.value \in [ParamNames -> ParameterValues]
    BY <1>8, <1>t DEF SavedAnswered, TypesOK, SavingTypeOK
  <2>2. /\ text' = saving.text /\ originalText' = saving.text /\ parameters' = saving.parameters
        /\ value' = saving.value /\ pending' = [p \in ParamNames |-> "none"]
        /\ disableUrlUpdate' = FALSE /\ settingsEdited' = FALSE /\ saving' = NoRequest
    BY <1>8 DEF SavedAnswered
  <2>3. UpdateUrl(FALSE, parameters', value')
    BY <1>8 DEF SavedAnswered
  <2>4. /\ url' \in [ParamNames -> ParameterValues]
        /\ \A p \in parameters' : url'[p] = value'[p]
    <3>1. parameters' \subseteq ParamNames /\ value' \in [ParamNames -> ParameterValues]
      BY <2>1, <2>2
    <3>2. FALSE \in BOOLEAN /\ ~FALSE
      OBVIOUS
    <3> QED
      BY <1>t, <2>3, <3>1, <3>2, UrlFollows
  <2>5. dirtyFlag' = HasPending(parameters', pending', value')
    BY <1>8 DEF SavedAnswered, FlagOf
  <2>6. dirtyFlag' \in BOOLEAN /\ (dirtyFlag' <=> HasPending(parameters', pending', value'))
    BY <2>5, Zenon DEF HasPending
  <2>7. pending' \in [ParamNames -> ParameterValues \union {"none"}]
    BY <2>2
  <2>8. SavingTypeOK' /\ saving'.kind \in {"none", "save", "rename"}
    BY <2>2, SMT DEF SavingTypeOK, NoRequest
  <2>9. TypesOK'
    BY <2>1, <2>2, <2>4, <2>6, <2>7, <2>8 DEF TypesOK, ParametersTypeOK
  <2> QED
    BY <2>4, <2>6, <2>9 DEF ParametersInv, FlagIsSet, FlagIsBacked, UrlAgrees
<1>9. CASE RenameAnswered
  <2>1. saving.text \in Texts /\ parameters \subseteq ParamNames
    BY <1>9, <1>t DEF RenameAnswered, TypesOK, ParametersTypeOK, SavingTypeOK
  <2>2. /\ saving' = NoRequest /\ text' = saving.text /\ SetQuery(parameters)
        /\ UNCHANGED <<disableUrlUpdate, originalText>>
    BY <1>9 DEF RenameAnswered
  <2>3. SavingTypeOK' /\ saving'.kind \in {"none", "save", "rename"}
    BY <2>2, SMT DEF SavingTypeOK, NoRequest
  <2>4. TypesOK'
    BY <1>t, <2>1, <2>2, <2>3, ClonesAgree DEF TypesOK, ParametersTypeOK
  <2> QED
    BY <1>t, <2>1, <2>2, <2>4, ClonesKeepInv
<1>10. CASE SavingFails
  <2>1. UNCHANGED <<disableUrlUpdate, text, originalText, parameters, value, pending, url,
                    dirtyFlag, settingsEdited>>
    BY <1>10 DEF SavingFails
  <2>2. SavingTypeOK' /\ saving'.kind \in {"none", "save", "rename"}
    BY <1>10, SMT DEF SavingFails, SavingTypeOK, NoRequest
  <2>3. TypesOK'
    BY <1>t, <2>1, <2>2 DEF TypesOK, ParametersTypeOK, Texts
  <2> QED
    BY <2>1, <2>3 DEF ParametersInv, FlagIsSet, FlagIsBacked, UrlAgrees, HasPending
<1>11. CASE UNCHANGED parametersVars
  BY <1>11 DEF parametersVars, ParametersInv, TypesOK, ParametersTypeOK, SavingTypeOK, FlagIsSet,
               FlagIsBacked, UrlAgrees, HasPending, Texts
<1> QED
  BY <1>1, <1>2, <1>3, <1>4, <1>5, <1>6, <1>7, <1>8, <1>9, <1>10, <1>11 DEF ParametersNext

(* In every order of typing, entering, applying, editing and saving, and   *)
(* of the answers, a pending value keeps the query from being executed,    *)
(* nothing else does, and the URL has the values that are executed with.   *)
THEOREM ParametersStayInStep == ParametersSpec => []ParametersTypeOK /\ []ParametersAgree
<1>1. ParametersInv => ParametersTypeOK /\ ParametersAgree
  BY DEF ParametersInv, TypesOK, FlagIsSet, FlagIsBacked, UrlAgrees, ParametersAgree
<1> QED
  BY <1>1, ParametersInitInv, ParametersStep, PTL DEF ParametersSpec

-----------------------------------------------------------------------------
(* Datasets.                                                                *)

GraphTypes ==
    /\ nodes \in Seq(Tables) /\ edges \in Seq(Nat \X Nat)
    /\ dataSetJoin \in Seq([left : Tables, right : Tables])
    /\ leftTable \in Nat

(* The dialog is about the last node, which has no edge yet.                *)
Lengths ==
    /\ Len(dataSetJoin) = Len(edges)
    /\ nodes = <<>> => ~showJoinDataModal /\ Len(edges) = 0
    /\ nodes # <<>> => Len(nodes) = Len(edges) + (IF showJoinDataModal THEN 2 ELSE 1)

(* What was chosen in the form is still there, and was there before the     *)
(* node that is being joined.                                               *)
ChoiceIsOld == leftTable <= (IF nodes = <<>> THEN 0 ELSE Len(edges) + 1)

JoinedAt(i, ns, es, joins) ==
    /\ es[i][1] \in 1 .. i /\ es[i][2] = i + 1
    /\ joins[i] = [left |-> ns[es[i][1]], right |-> ns[i + 1]]

Joined == \A i \in 1 .. Len(edges) : JoinedAt(i, nodes, edges, dataSetJoin)

TextOfGraph ==
    ~reverted => sql = IF nodes = <<>> THEN EmptyText ELSE [from |-> nodes[1], joins |-> dataSetJoin]

GraphInv == GraphTypes /\ Lengths /\ ChoiceIsOld /\ Joined /\ TextOfGraph

-----------------------------------------------------------------------------
LEMMA FrontOfNodes ==
  ASSUME GraphTypes, nodes # <<>>
  PROVE  /\ Front(nodes) \in Seq(Tables) /\ Len(Front(nodes)) = Len(nodes) - 1
         /\ \A i \in 1 .. Len(nodes) - 1 : Front(nodes)[i] = nodes[i]
<1>1. Len(nodes) \in Nat \ {0} /\ nodes \in Seq(Tables)
  BY DEF GraphTypes
<1>2. Front(nodes) = SubSeq(nodes, 1, Len(nodes) - 1)
  BY DEF Front
<1>3. \A i \in 1 .. Len(nodes) - 1 : nodes[i] \in Tables
  BY <1>1
<1> DEFINE n == Len(nodes) - 1
<1>4. n \in Int /\ 1 \in Int
  BY <1>1
<1> HIDE DEF n
<1>5. /\ SubSeq(nodes, 1, n) \in Seq(Tables)
      /\ Len(SubSeq(nodes, 1, n)) = IF 1 <= n THEN n - 1 + 1 ELSE 0
      /\ \A i \in 1 .. n - 1 + 1 : SubSeq(nodes, 1, n)[i] = nodes[1 + i - 1]
  BY <1>3, <1>4, SubSeqProperties DEF n
<1>6. n \in Nat /\ n - 1 + 1 = n /\ \A i \in 1 .. n : 1 + i - 1 = i
  BY <1>1, <1>4 DEF n
<1> QED
  BY <1>2, <1>5, <1>6 DEF n

(* The text of a graph whose joins are made selects from its first table.   *)
LEMMA TextFromFirst ==
  ASSUME GraphInv, ~showJoinDataModal, nodes # <<>>
  PROVE  JoinSqlText(nodes, dataSetJoin) = [from |-> nodes[1], joins |-> dataSetJoin]
<1>1. CASE Len(nodes) = 1
  <2>1. dataSetJoin = <<>>
    BY <1>1 DEF GraphInv, GraphTypes, Lengths
  <2> QED
    BY <1>1, <2>1 DEF JoinSqlText
<1>2. CASE Len(nodes) # 1
  <2>1. 1 \in 1 .. Len(edges) /\ Len(nodes) \in Nat
    BY <1>2 DEF GraphInv, GraphTypes, Lengths
  <2>2. JoinedAt(1, nodes, edges, dataSetJoin)
    BY <2>1 DEF GraphInv, Joined
  <2>3. dataSetJoin[1].left = nodes[1]
    BY <2>2 DEF JoinedAt
  <2> QED
    BY <1>2, <2>3 DEF JoinSqlText
<1> QED
  BY <1>1, <1>2

LEMMA DropTableStep ==
  ASSUME GraphInv, DropTable
  PROVE  GraphInv'
<1>1. PICK t \in Tables : nodes' = Append(nodes, t)
  BY DEF DropTable
<1>2. /\ ~showJoinDataModal /\ UNCHANGED <<edges, dataSetJoin, leftTable>>
      /\ showJoinDataModal' = (Len(nodes') > 1)
  BY DEF DropTable
<1>c. showJoinDataModal' <=> Len(nodes') > 1
  BY Zenon DEF DropTable
<1>a. nodes \in Seq(Tables) /\ Len(nodes) \in Nat
  BY DEF GraphInv, GraphTypes
<1>b. /\ nodes' \in Seq(Tables) /\ Len(nodes') = Len(nodes) + 1
      /\ \A i \in 1 .. Len(nodes) : nodes'[i] = nodes[i]
      /\ nodes'[Len(nodes) + 1] = t
  BY <1>1, <1>a
<1>3. /\ nodes' \in Seq(Tables) /\ nodes' # <<>> /\ Len(nodes') = Len(nodes) + 1
      /\ \A i \in 1 .. Len(nodes) : nodes'[i] = nodes[i]
      /\ nodes = <<>> => nodes'[1] = t
  BY <1>a, <1>b
<1>4. GraphTypes' /\ Lengths' /\ ChoiceIsOld'
  <2>1. GraphTypes'
    BY <1>2, <1>3 DEF GraphInv, GraphTypes
  <2>2. CASE nodes = <<>>
    <3>1. Len(nodes) = 0 /\ Len(edges) = 0 /\ ~showJoinDataModal'
      BY <1>2, <1>3, <1>c, <2>2 DEF GraphInv, Lengths
    <3> QED
      BY <1>2, <1>3, <2>1, <2>2, <3>1 DEF GraphInv, Lengths, ChoiceIsOld, GraphTypes
  <2>3. CASE nodes # <<>>
    <3>1. Len(nodes) >= 1 /\ showJoinDataModal' /\ Len(nodes) = Len(edges) + 1
      BY <1>2, <1>3, <1>a, <1>c, <2>3 DEF GraphInv, Lengths
    <3> QED
      BY <1>2, <1>3, <2>1, <2>3, <3>1 DEF GraphInv, Lengths, ChoiceIsOld, GraphTypes
  <2> QED
    BY <2>2, <2>3
<1>5. Joined'
  <2>1. ASSUME NEW i \in 1 .. Len(edges)
        PROVE  JoinedAt(i, nodes, edges, dataSetJoin)'
    <3>1. JoinedAt(i, nodes, edges, dataSetJoin)
      BY DEF GraphInv, Joined
    <3>2. i \in 1 .. Len(nodes) - 1
      BY <1>2, <1>a DEF GraphInv, GraphTypes, Lengths
    <3>3. edges[i][1] \in 1 .. Len(nodes) /\ i + 1 \in 1 .. Len(nodes)
      BY <1>a, <3>1, <3>2 DEF JoinedAt
    <3> QED
      BY <1>2, <1>3, <3>1, <3>3 DEF JoinedAt
  <2> QED
    BY <1>2, <2>1 DEF Joined
<1>6. TextOfGraph'
  <2>1. CASE nodes = <<>>
    <3>0. Len(nodes) = 0 /\ Len(dataSetJoin) = 0
      BY <2>1 DEF GraphInv, Lengths
    <3>1. Len(nodes') = 1 /\ dataSetJoin = <<>>
      BY <1>3, <3>0 DEF GraphInv, GraphTypes
    <3>2. sql' = JoinSqlText(nodes', dataSetJoin)
      BY <3>1 DEF DropTable, SetText
    <3> QED
      BY <1>2, <1>3, <3>1, <3>2 DEF JoinSqlText, TextOfGraph
  <2>2. CASE nodes # <<>>
    <3>1. Len(nodes') > 1 /\ nodes'[1] = nodes[1]
      BY <1>3, <2>2 DEF GraphInv, GraphTypes
    <3>2. UNCHANGED <<sql, reverted>>
      BY <3>1 DEF DropTable
    <3> QED
      BY <1>2, <1>3, <2>2, <3>1, <3>2 DEF GraphInv, TextOfGraph
  <2> QED
    BY <2>1, <2>2
<1> QED
  BY <1>4, <1>5, <1>6 DEF GraphInv

LEMMA ConfirmJoinStep ==
  ASSUME GraphInv, ConfirmJoin
  PROVE  GraphInv'
<1> DEFINE join == [left |-> nodes[LeftPosition], right |-> Last(nodes)]
<1>1. /\ showJoinDataModal /\ ~showJoinDataModal' /\ UNCHANGED <<nodes, leftTable>>
      /\ edges' = Append(edges, <<LeftPosition, Len(nodes)>>)
      /\ dataSetJoin' = Append(dataSetJoin, join)
      /\ sql' = JoinSqlText(nodes, dataSetJoin') /\ ~reverted'
  BY DEF ConfirmJoin, ResetCondition, SetText
<1>2. nodes # <<>> /\ Len(nodes) = Len(edges) + 2 /\ Len(edges) \in Nat /\ Len(dataSetJoin) = Len(edges)
  BY <1>1 DEF GraphInv, GraphTypes, Lengths
<1>3. LeftPosition \in 1 .. Len(edges) + 1
  BY <1>2 DEF GraphInv, GraphTypes, ChoiceIsOld, LeftPosition
<1>4. join = [left |-> nodes[LeftPosition], right |-> nodes[Len(edges) + 2]] 
      /\ join \in [left : Tables, right : Tables]
  BY <1>2, <1>3 DEF GraphInv, GraphTypes, Last
<1>5. /\ edges' \in Seq(Nat \X Nat) /\ Len(edges') = Len(edges) + 1
      /\ \A i \in 1 .. Len(edges) : edges'[i] = edges[i]
      /\ edges'[Len(edges) + 1] = <<LeftPosition, Len(nodes)>>
  BY <1>1, <1>2, <1>3 DEF GraphInv, GraphTypes
<1>6. /\ dataSetJoin' \in Seq([left : Tables, right : Tables])
      /\ Len(dataSetJoin') = Len(edges) + 1
      /\ \A i \in 1 .. Len(edges) : dataSetJoin'[i] = dataSetJoin[i]
      /\ dataSetJoin'[Len(edges) + 1] = join
  BY <1>1, <1>2, <1>4 DEF GraphInv, GraphTypes
<1>7. GraphTypes' /\ Lengths' /\ ChoiceIsOld'
  BY <1>1, <1>2, <1>5, <1>6 DEF GraphInv, GraphTypes, Lengths, ChoiceIsOld
<1>8. Joined'
  <2>1. ASSUME NEW i \in 1 .. Len(edges) PROVE JoinedAt(i, nodes, edges, dataSetJoin)'
    BY <1>1, <1>5, <1>6 DEF GraphInv, Joined, JoinedAt
  <2>2. JoinedAt(Len(edges) + 1, nodes, edges', dataSetJoin')
    BY <1>2, <1>3, <1>4, <1>5, <1>6 DEF JoinedAt
  <2>3. \A i \in 1 .. Len(edges') : i \in 1 .. Len(edges) \/ i = Len(edges) + 1
    BY <1>2, <1>5
  <2> QED
    BY <1>1, <2>1, <2>2, <2>3 DEF Joined
<1>9. TextOfGraph'
  <2>0. 1 \in 1 .. Len(edges')
    BY <1>2, <1>5
  <2>a. JoinedAt(1, nodes, edges', dataSetJoin')
    BY <1>1, <2>0, <1>8 DEF Joined
  <2>1. dataSetJoin'[1].left = nodes[1]
    BY <2>a DEF JoinedAt
  <2>2. JoinSqlText(nodes, dataSetJoin') = [from |-> nodes[1], joins |-> dataSetJoin']
    BY <1>2, <2>1 DEF JoinSqlText
  <2> QED
    BY <1>1, <1>2, <2>2 DEF TextOfGraph
<1> QED
  BY <1>7, <1>8, <1>9 DEF GraphInv

LEMMA CancelJoinStep ==
  ASSUME GraphInv, CancelJoin
  PROVE  GraphInv'
<1>1. /\ showJoinDataModal /\ ~showJoinDataModal' /\ nodes' = Front(nodes)
      /\ UNCHANGED <<edges, dataSetJoin, leftTable, sql, reverted>>
  BY DEF CancelJoin, JoinsAfterCancel, ResetCondition
<1>2. nodes # <<>> /\ Len(nodes) = Len(edges) + 2 /\ Len(edges) \in Nat
  BY <1>1 DEF GraphInv, GraphTypes, Lengths
<1>3. /\ nodes' \in Seq(Tables) /\ Len(nodes') = Len(edges) + 1 /\ nodes' # <<>>
      /\ \A i \in 1 .. Len(edges) + 1 : nodes'[i] = nodes[i]
  BY <1>1, <1>2, FrontOfNodes DEF GraphInv
<1>4. GraphTypes' /\ Lengths' /\ ChoiceIsOld'
  BY <1>1, <1>2, <1>3 DEF GraphInv, GraphTypes, Lengths, ChoiceIsOld
<1>5. Joined'
  <2>1. ASSUME NEW i \in 1 .. Len(edges)
        PROVE  JoinedAt(i, nodes, edges, dataSetJoin)'
    <3>1. JoinedAt(i, nodes, edges, dataSetJoin)
      BY DEF GraphInv, Joined
    <3>2. edges[i][1] \in 1 .. Len(edges) + 1 /\ i + 1 \in 1 .. Len(edges) + 1
      BY <1>2, <3>1 DEF JoinedAt
    <3> QED
      BY <1>1, <1>3, <3>1, <3>2 DEF JoinedAt
  <2> QED
    BY <1>1, <2>1 DEF Joined
<1>6. TextOfGraph'
  BY <1>1, <1>2, <1>3 DEF GraphInv, TextOfGraph
<1> QED
  BY <1>4, <1>5, <1>6 DEF GraphInv

LEMMA GraphInvStep ==
  ASSUME GraphInv, [DatasetNext]_datasetVars
  PROVE  GraphInv'
<1>1. ASSUME ChooseLeftTable PROVE GraphInv'
  <2>1. /\ leftTable' \in 1 .. Len(nodes) - 1 /\ showJoinDataModal
        /\ UNCHANGED <<nodes, edges, dataSetJoin, showJoinDataModal, sql, reverted>>
    BY <1>1 DEF ChooseLeftTable
  <2>2. nodes # <<>> /\ Len(nodes) = Len(edges) + 2 /\ leftTable' \in Nat
    BY <2>1 DEF GraphInv, GraphTypes, Lengths
  <2> QED
    BY <2>1, <2>2 DEF GraphInv, GraphTypes, Lengths, ChoiceIsOld, Joined, TextOfGraph
<1>2. ASSUME ChangeConditions \/ SaveDataset \/ DatasetRequestFails \/ UNCHANGED datasetVars
      PROVE  GraphInv'
  <2>1. UNCHANGED <<nodes, edges, dataSetJoin, showJoinDataModal, leftTable, sql, reverted>>
    BY <1>2 DEF ChangeConditions, SaveDataset, DatasetRequestFails, datasetVars
  <2> QED
    BY <2>1 DEF GraphInv, GraphTypes, Lengths, ChoiceIsOld, Joined, TextOfGraph
<1>3. ASSUME DatasetAnswered PROVE GraphInv'
  <2>1. /\ UNCHANGED <<nodes, edges, dataSetJoin, showJoinDataModal, leftTable>>
        /\ ~reverted' => sql' = sql /\ ~reverted
    BY <1>3 DEF DatasetAnswered, BringBack
  <2> QED
    BY <2>1 DEF GraphInv, GraphTypes, Lengths, ChoiceIsOld, Joined, TextOfGraph
<1> QED
  BY <1>1, <1>2, <1>3, DropTableStep, ConfirmJoinStep, CancelJoinStep DEF DatasetNext

-----------------------------------------------------------------------------
(* The types of the texts and of the form.                                  *)

Conditions == {"none", "half", "both"}

TextTypes ==
    /\ relationCondition \in Seq(Conditions)
    /\ IsText(sql) /\ IsText(savedSql) /\ IsText(saveRequest) /\ IsText(renameRequest)
    /\ reverted \in BOOLEAN /\ showJoinDataModal \in BOOLEAN

LEMMA ElementsOf ==
  ASSUME NEW S, NEW s \in Seq(S)
  PROVE  \A i \in DOMAIN s : s[i] \in S
OBVIOUS

LEMMA OneCondition == <<"none">> \in Seq(Conditions)
BY DEF Conditions

LEMMA EmptyTexts == IsText(EmptyText) /\ IsText(NoText)
<1>1. DOMAIN <<>> = {}
  OBVIOUS
<1> QED
  BY <1>1 DEF IsText, EmptyText, NoText

LEMMA GraphsAreTexts == GraphInv /\ ~reverted => IsText(sql)
<1> SUFFICES ASSUME GraphInv, ~reverted PROVE IsText(sql)
  OBVIOUS
<1>1. CASE nodes = <<>>
  BY <1>1, EmptyTexts DEF GraphInv, TextOfGraph
<1>2. CASE nodes # <<>>
  <2>1. sql = [from |-> nodes[1], joins |-> dataSetJoin]
    BY <1>2 DEF GraphInv, TextOfGraph
  <2>2. nodes[1] \in Tables
    BY <1>2 DEF GraphInv, GraphTypes
  <2>3. \A i \in DOMAIN dataSetJoin : dataSetJoin[i] \in [left : Tables, right : Tables]
    BY ElementsOf, Zenon DEF GraphInv, GraphTypes
  <2> QED
    BY <2>1, <2>2, <2>3 DEF IsText
<1> QED
  BY <1>1, <1>2

LEMMA WithoutOneCondition ==
  ASSUME NEW s \in Seq(Conditions), NEW i \in 2 .. Len(s)
  PROVE  RemoveAt(s, i) \in Seq(Conditions)
<1>1. \A j \in 1 .. Len(s) : s[j] \in Conditions
  OBVIOUS
<1> DEFINE n == i - 1
           m == i + 1
<1>2. n \in Int /\ m \in Int /\ 1 \in Int /\ Len(s) \in Int /\ n <= Len(s) /\ 1 <= m
  OBVIOUS
<1> HIDE DEF n, m
<1>3. SubSeq(s, 1, n) \in Seq(Conditions)
  <2>1. \A j \in 1 .. n : s[j] \in Conditions
    BY <1>1, <1>2
  <2> QED
    BY <1>2, <2>1, SubSeqProperties
<1>4. SubSeq(s, m, Len(s)) \in Seq(Conditions)
  <2>1. \A j \in m .. Len(s) : s[j] \in Conditions
    BY <1>1, <1>2
  <2> QED
    BY <1>2, <2>1, SubSeqProperties
<1>5. SubSeq(s, 1, n) \o SubSeq(s, m, Len(s)) \in Seq(Conditions)
  BY <1>3, <1>4, ConcatProperties
<1> QED
  BY <1>5 DEF RemoveAt, n, m

LEMMA TextTypesStep ==
  ASSUME GraphInv, GraphInv', TextTypes, [DatasetNext]_datasetVars
  PROVE  TextTypes'
<1>0. ~reverted' => IsText(sql')
  <2>1. (GraphInv /\ ~reverted => IsText(sql))'
    BY GraphsAreTexts, PTL
  <2> QED
    BY <2>1 DEF IsText
<1>1. CASE DropTable \/ ConfirmJoin
  <2>1. /\ ~reverted' \/ (sql' = sql /\ reverted' = reverted)
        /\ relationCondition' = relationCondition \/ relationCondition' = <<"none">>
        /\ UNCHANGED <<savedSql, saveRequest, renameRequest>>
    BY <1>1 DEF DropTable, ConfirmJoin, ResetCondition, SetText
  <2>2. reverted' \in BOOLEAN
    BY <1>1 DEF DropTable, ConfirmJoin, SetText, TextTypes
  <2>3. IsText(sql')
    BY <1>0, <2>1 DEF TextTypes
  <2>4. relationCondition' \in Seq(Conditions)
    BY <2>1, OneCondition, Zenon DEF TextTypes
  <2>5. showJoinDataModal' \in BOOLEAN
    <3>1. DropTable => showJoinDataModal' \in BOOLEAN
      <4>1. Len(nodes') > 1 => (Len(nodes') > 1) = TRUE
        OBVIOUS
      <4>2. ~(Len(nodes') > 1) => (Len(nodes') > 1) = FALSE
        OBVIOUS
      <4> QED
        BY <4>1, <4>2, Zenon DEF DropTable
    <3>2. ConfirmJoin => showJoinDataModal' \in BOOLEAN
      BY DEF ConfirmJoin, ResetCondition
    <3> QED
      BY <1>1, <3>1, <3>2
  <2> QED
    BY <2>1, <2>2, <2>3, <2>4, <2>5, Zenon DEF TextTypes, IsText
<1>2. CASE CancelJoin
  <2>1. relationCondition' \in Seq(Conditions)
    BY <1>2 DEF CancelJoin, ResetCondition, Conditions
  <2> QED
    BY <1>2, <2>1 DEF CancelJoin, ResetCondition, TextTypes, IsText
<1>3. CASE ChangeConditions
  <2>1. relationCondition \in Seq(Conditions)
    BY DEF TextTypes
  <2>2. relationCondition' \in Seq(Conditions)
    <3>1. CASE relationCondition' = Append(relationCondition, "none")
      BY <2>1, <3>1 DEF Conditions
    <3>2. CASE \E i \in 2 .. Len(relationCondition) : relationCondition' = RemoveAt(relationCondition, i)
      <4>1. PICK i \in 2 .. Len(relationCondition) : relationCondition' = RemoveAt(relationCondition, i)
        BY <3>2
      <4> QED
        BY <2>1, <4>1, WithoutOneCondition
    <3>3. ASSUME NEW i \in DOMAIN relationCondition, NEW c \in Conditions,
                 relationCondition' = [relationCondition EXCEPT ![i] = c]
          PROVE  relationCondition' \in Seq(Conditions)
      BY <2>1, <3>3
    <3>4. CASE \E i \in DOMAIN relationCondition :
                  relationCondition' = [relationCondition EXCEPT ![i] =
                                           IF @ = "half" THEN "both" ELSE "half"]
      <4>1. PICK i \in DOMAIN relationCondition :
               relationCondition' = [relationCondition EXCEPT ![i] =
                                        IF relationCondition[i] = "half" THEN "both" ELSE "half"]
        BY <3>4
      <4>2. (IF relationCondition[i] = "half" THEN "both" ELSE "half") \in Conditions
        BY DEF Conditions
      <4> QED
        BY <3>3, <4>1, <4>2
    <3>5. CASE \E i \in DOMAIN relationCondition :
                  relationCondition' = [relationCondition EXCEPT ![i] = "none"]
      BY <3>3, <3>5 DEF Conditions
    <3> QED
      BY <1>3, <3>1, <3>2, <3>4, <3>5 DEF ChangeConditions
  <2> QED
    BY <1>3, <2>2 DEF ChangeConditions, TextTypes, IsText
<1>4. CASE SaveDataset
  <2>1. /\ saveRequest' \in {saveRequest, sql} /\ renameRequest' \in {renameRequest, sql}
        /\ UNCHANGED <<relationCondition, sql, savedSql, reverted, showJoinDataModal>>
    BY <1>4 DEF SaveDataset
  <2>2. IsText(saveRequest') /\ IsText(renameRequest')
    BY <2>1 DEF TextTypes
  <2> QED
    BY <2>1, <2>2 DEF TextTypes, IsText
<1>6. CASE DatasetAnswered
  <2>1. /\ saveRequest' \in {saveRequest, NoText} /\ renameRequest' \in {renameRequest, NoText}
        /\ sql' \in {saveRequest, renameRequest} /\ savedSql' \in {savedSql, saveRequest}
        /\ UNCHANGED <<relationCondition, showJoinDataModal>>
    BY <1>6 DEF DatasetAnswered, BringBack
  <2>2. reverted' \in BOOLEAN
    BY <1>6, Zenon DEF DatasetAnswered, BringBack
  <2>3. IsText(sql') /\ IsText(savedSql') /\ IsText(saveRequest') /\ IsText(renameRequest')
    BY EmptyTexts, <2>1 DEF TextTypes
  <2> QED
    BY <2>1, <2>2, <2>3 DEF TextTypes, IsText
<1>7. CASE DatasetRequestFails
  <2>1. /\ saveRequest' \in {saveRequest, NoText} /\ renameRequest' \in {renameRequest, NoText}
        /\ UNCHANGED <<relationCondition, sql, savedSql, reverted, showJoinDataModal>>
    BY <1>7 DEF DatasetRequestFails
  <2>2. IsText(saveRequest') /\ IsText(renameRequest')
    BY EmptyTexts, <2>1 DEF TextTypes
  <2> QED
    BY <2>1, <2>2 DEF TextTypes, IsText
<1>8. CASE ChooseLeftTable \/ UNCHANGED datasetVars
  BY <1>8 DEF ChooseLeftTable, datasetVars, TextTypes, IsText
<1> QED
  BY <1>1, <1>2, <1>3, <1>4, <1>6, <1>7, <1>8 DEF DatasetNext

LEMMA DatasetTypes == GraphInv /\ TextTypes => DatasetTypeOK
<1> SUFFICES ASSUME GraphInv, TextTypes PROVE DatasetTypeOK
  OBVIOUS
<1>1. /\ nodes \in Seq(Tables) /\ Len(nodes) \in Nat /\ Len(edges) \in Nat
      /\ edges \in Seq(Nat \X Nat) /\ leftTable \in Nat /\ DOMAIN edges = 1 .. Len(edges)
  BY DEF GraphInv, GraphTypes
<1>2. nodes # <<>> => Len(nodes) >= Len(edges) + 1
  BY <1>1 DEF GraphInv, Lengths
<1>3. ASSUME NEW i \in DOMAIN edges
      PROVE  edges[i] \in (1 .. Len(nodes)) \X (1 .. Len(nodes))
  <2>1. i \in 1 .. Len(edges) /\ Len(edges) # 0
    BY <1>1
  <2>2. JoinedAt(i, nodes, edges, dataSetJoin) /\ nodes # <<>>
    BY <2>1 DEF GraphInv, Joined, Lengths
  <2>3. edges[i][1] \in 1 .. Len(nodes) /\ edges[i][2] \in 1 .. Len(nodes)
    BY <1>1, <1>2, <2>1, <2>2 DEF JoinedAt
  <2>4. edges[i] \in Nat \X Nat
    BY <1>1
  <2> QED
    BY <2>3, <2>4
<1>4. leftTable \in 0 .. Len(nodes)
  BY <1>1, <1>2 DEF GraphInv, ChoiceIsOld
<1>5. showJoinDataModal \in BOOLEAN
  BY DEF TextTypes
<1>6. \A i \in DOMAIN dataSetJoin : {dataSetJoin[i].left, dataSetJoin[i].right} \subseteq Tables
  <2>1. \A i \in DOMAIN dataSetJoin : dataSetJoin[i] \in [left : Tables, right : Tables]
    BY ElementsOf, Zenon DEF GraphInv, GraphTypes
  <2> QED
    BY <2>1
<1>7. \A i \in DOMAIN relationCondition : relationCondition[i] \in {"none", "half", "both"}
  BY DEF TextTypes, Conditions
<1> QED
  BY <1>1, <1>3, <1>4, <1>5, <1>6, <1>7 DEF TextTypes, DatasetTypeOK

(* What the page shows and executes is one join of every table to an        *)
(* earlier one, whatever was dropped, cancelled and confirmed before.       *)
THEOREM DatasetsAreJoined == DatasetSpec => []DatasetTypeOK /\ []GraphIsJoined
<1>1. DatasetInit => GraphInv
  BY DEF DatasetInit, GraphInv, GraphTypes, Lengths, ChoiceIsOld, Joined, TextOfGraph
<1>3. GraphInv => GraphIsJoined
  <2> SUFFICES ASSUME GraphInv, ~showJoinDataModal, nodes # <<>> PROVE GraphIsJoined
    BY DEF GraphIsJoined
  <2>1. Len(edges) = Len(nodes) - 1 /\ Len(dataSetJoin) = Len(edges) /\ Len(edges) \in Nat
        /\ DOMAIN dataSetJoin = 1 .. Len(edges)
    BY DEF GraphInv, GraphTypes, Lengths
  <2>2. \A i \in DOMAIN dataSetJoin :
          /\ edges[i][1] <= i /\ edges[i][2] = i + 1
          /\ dataSetJoin[i] = [left |-> nodes[edges[i][1]], right |-> nodes[i + 1]]
    BY <2>1 DEF GraphInv, Joined, JoinedAt
  <2>3. ~reverted => Executed = [from |-> nodes[1], joins |-> dataSetJoin]
    BY TextFromFirst DEF GraphInv, TextOfGraph, Executed
  <2> QED
    BY <2>1, <2>2, <2>3 DEF GraphIsJoined
<1>4. DatasetInit => TextTypes
  BY EmptyTexts, OneCondition, Zenon DEF DatasetInit, TextTypes
<1>5. GraphInv /\ TextTypes /\ [DatasetNext]_datasetVars => GraphInv' /\ TextTypes'
  BY GraphInvStep, TextTypesStep
<1> QED
  BY <1>1, <1>3, <1>4, <1>5, DatasetTypes, PTL DEF DatasetSpec
=============================================================================
