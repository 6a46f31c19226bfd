--------------------------- MODULE QueryExecution ---------------------------
(***************************************************************************)
(* The query page runs a query: services/query-result.js follows one       *)
(* execution from the POST over the polling of its job to the loading of   *)
(* the result, and hooks/useQueryExecute.js shows what the last execution  *)
(* of the page brought.  Executions overlap: applying parameters starts a  *)
(* new one while an older one is still polled, and nothing stops the       *)
(* polling of the older one.                                               *)
(*                                                                         *)
(* Every request may be answered, fail, or be answered late; a timer fires *)
(* at any time after it was set.  A poll takes two steps on the server,    *)
(* because JobResource fetches the job and then asks for its status again. *)
(***************************************************************************)
EXTENDS Naturals

CONSTANTS
    MaxExecutions,  \* bound: executions of one visit to the page
    MaxTryCount     \* loadResult gives up when its tryCount exceeds this

ASSUME BoundsAssumption == MaxExecutions \in Nat \ {0} /\ MaxTryCount \in Nat

VARIABLES
    started,    \* how many executions there were
    res,        \* the QueryResult object of each execution
    job,        \* what the server has of its job
    cancelled,  \* the jobs whose cancelled flag is set
    inExecution,\* queryResultInExecution.current, 0 when it is null
    page        \* executionState of useQueryExecute

execVars == <<started, res, job, cancelled, inExecution, page>>

Executions == 1 .. MaxExecutions

(* What a QueryResult waits for. *)
Requests == {"none", "post", "cached", "poll", "fetched", "timer", "load", "backoff"}
Statuses == {"waiting", "processing", "done", "failed", "loading-result", "unset"}
JobStates == {"none", "queued", "started", "done", "error", "failed", "gone"}
Snapshots == {"none", "cancelled", "error", "result"}

Unused == [net |-> "none", status |-> "waiting", known |-> FALSE, snap |-> "none",
           tryCount |-> 0, settled |-> FALSE, forbidden |-> FALSE]

ExecTypeOK ==
    /\ started \in 0 .. MaxExecutions
    /\ res \in [Executions ->
                  [net : Requests, status : Statuses, known : BOOLEAN, snap : Snapshots,
                   tryCount : 0 .. MaxTryCount + 1, settled : BOOLEAN,
                   forbidden : BOOLEAN]]    \* history: a 403 without a job was the answer
    /\ job \in [Executions -> JobStates]
    /\ cancelled \subseteq Executions
    /\ inExecution \in 0 .. MaxExecutions
    /\ page \in [result : 0 .. MaxExecutions, isExecuting : BOOLEAN, loaded : BOOLEAN,
                 status : Statuses, isCancelling : BOOLEAN, mounted : BOOLEAN]

ExecInit ==
    /\ started = 0
    /\ res = [e \in Executions |-> Unused]
    /\ job = [e \in Executions |-> "none"]
    /\ cancelled = {}
    /\ inExecution = 0
    /\ page = [result |-> 0, isExecuting |-> FALSE, loaded |-> FALSE, status |-> "unset",
               isCancelling |-> FALSE, mounted |-> TRUE]

-----------------------------------------------------------------------------
(* The callbacks of useQueryExecute.  Both ignore an execution that is not  *)
(* the one in the ref.                                                      *)

OnStatusChange(e, status) ==
    page' = IF inExecution = e THEN [page EXCEPT !.status = status] ELSE page

(* Mutant: any execution that ends is shown. *)
OnSettledAny(e, status) ==
    page' = [page EXCEPT !.result = e, !.loaded = TRUE, !.isExecuting = FALSE,
                         !.isCancelling = FALSE, !.status = status]

OnSettled(e, status) ==
    page' = IF inExecution = e
            THEN [page EXCEPT !.result = e, !.loaded = TRUE, !.isExecuting = FALSE,
                              !.isCancelling = FALSE, !.status = status]
            ELSE page

(* QueryResult.update with a result, with a running job, with an error.     *)

Resolve(e) ==
    /\ res' = [res EXCEPT ![e].net = "none", ![e].status = "done", ![e].settled = TRUE]
    /\ OnSettled(e, "unset")

(* Mutant: nobody hears of the error. *)
RejectUnheard(e) ==
    /\ res' = [res EXCEPT ![e].net = "none", ![e].status = "failed", ![e].settled = TRUE]
    /\ UNCHANGED page

Reject(e) ==
    /\ res' = [res EXCEPT ![e].net = "none", ![e].status = "failed", ![e].settled = TRUE]
    /\ OnSettled(e, "failed")

(* Mutant: the status comes as the server says it. *)
ShownStatusRaw(jobState) == jobState

(* A job that is not queued is "processing"; a queued one has no status.   *)
ShownStatus(jobState) == IF jobState = "queued" THEN "unset" ELSE "processing"

Follow(e, jobState, next) ==
    /\ res' = [res EXCEPT ![e].net = next, ![e].status = ShownStatus(jobState),
                          ![e].known = TRUE]
    /\ OnStatusChange(e, ShownStatus(jobState))

(* The body of abort(403) has no job: update neither resolves nor rejects.  *)
Forbid(e) ==
    /\ res' = [res EXCEPT ![e].net = "none", ![e].status = "unset", ![e].forbidden = TRUE]
    /\ OnStatusChange(e, "unset")

-----------------------------------------------------------------------------
(* executeQuery: a new QueryResult becomes the one in the ref.  isCancelling *)
(* and the old result stay as they are.                                      *)
Start(net, status) ==
    LET e == started + 1 IN
    /\ e \in Executions
    /\ started' = e
    /\ inExecution' = e
    /\ res' = [res EXCEPT ![e].net = net, ![e].status = status]
    /\ page' = [page EXCEPT !.isExecuting = TRUE, !.status = status]
    /\ UNCHANGED <<job, cancelled>>

(* A required parameter has no value: the QueryResult is born rejected.     *)
StartRejected ==
    LET e == started + 1 IN
    /\ e \in Executions
    /\ started' = e
    /\ inExecution' = e
    /\ res' = [res EXCEPT ![e].status = "failed", ![e].settled = TRUE]
    /\ page' = [page EXCEPT !.result = e, !.loaded = TRUE, !.isExecuting = FALSE,
                            !.isCancelling = FALSE, !.status = "failed"]
    /\ UNCHANGED <<job, cancelled>>

(* The effect of the mount: the stored result, an execution, or nothing.    *)
Open ==
    /\ page.mounted /\ started = 0 /\ ~page.loaded
    /\ \/ Start("cached", "loading-result")
       \/ Start("post", "waiting")
       \/ /\ page' = [page EXCEPT !.loaded = TRUE]
          /\ UNCHANGED <<started, res, job, cancelled, inExecution>>

(* doExecuteQuery: the button waits for the running execution, applied      *)
(* parameters do not.                                                       *)
ApplyParameters ==
    /\ page.mounted /\ (started > 0 \/ page.loaded)
    /\ Start("post", "waiting") \/ StartRejected

Execute == ~page.isExecuting /\ ApplyParameters

(* The cancel button: it is shown while the status is waiting or processing.*)
(* Without a job id the request names no job and changes nothing.           *)
Cancel ==
    /\ page.mounted /\ page.isExecuting /\ ~page.isCancelling
    /\ page.status \in {"waiting", "processing"}
    /\ page' = [page EXCEPT !.isCancelling = TRUE]
    /\ cancelled' = IF res[inExecution].known /\ job[inExecution] # "gone"
                    THEN cancelled \union {inExecution}
                    ELSE cancelled
    /\ UNCHANGED <<started, res, job, inExecution>>

Leave ==
    /\ page.mounted
    /\ page' = [page EXCEPT !.mounted = FALSE]
    /\ inExecution' = 0
    /\ UNCHANGED <<started, res, job, cancelled>>

-----------------------------------------------------------------------------
(* Answers and timers of execution e. *)

(* handleErrorResponse: a 403 with a job, a 400 and any other error reject.  *)
HandleErrorResponse(e) == Reject(e) \/ Forbid(e)

Answered(e, net) == res[e].net = net /\ UNCHANGED <<started, cancelled, inExecution>>

PostAnswered(e) ==
    /\ Answered(e, "post")
    /\ \/ Resolve(e) /\ UNCHANGED job
       \/ HandleErrorResponse(e) /\ UNCHANGED job
       \/ \E s \in {"queued", "started"} :
             /\ job' = [job EXCEPT ![e] = s]
             /\ Follow(e, s, "poll")

CachedAnswered(e) ==
    /\ Answered(e, "cached")
    /\ Resolve(e) \/ HandleErrorResponse(e)
    /\ UNCHANGED job

(* JobResource.get: the job is fetched with its result and its flag ...     *)
PollFetched(e) ==
    /\ Answered(e, "poll")
    /\ IF job[e] = "gone"
       THEN Reject(e)
       ELSE /\ res' = [res EXCEPT ![e].net = "fetched",
                          ![e].snap = CASE e \in cancelled -> "cancelled"
                                        [] job[e] = "error" -> "error"
                                        [] job[e] = "done" -> "result"
                                        [] OTHER -> "none"]
            /\ UNCHANGED page
    /\ UNCHANGED job

(* ... and serialize_job asks for its status again.                         *)
PollAnswered(e) ==
    /\ Answered(e, "fetched")
    /\ IF \/ res[e].snap \in {"cancelled", "error"}
          \/ job[e] \in {"failed", "gone"}
       THEN Reject(e)
       ELSE IF res[e].snap = "result"
       THEN /\ res' = [res EXCEPT ![e].net = "load", ![e].status = "loading-result",
                                  ![e].tryCount = 0]
            /\ OnStatusChange(e, "loading-result")
       ELSE Follow(e, job[e], "timer")
    /\ UNCHANGED job

PollLost(e) ==
    /\ res[e].net \in {"poll", "fetched"}
    /\ Reject(e)
    /\ UNCHANGED <<started, job, cancelled, inExecution>>

PollAgain(e) ==
    /\ Answered(e, "timer")
    /\ res' = [res EXCEPT ![e].net = "poll"]
    /\ UNCHANGED <<job, page>>

LoadAnswered(e) ==
    /\ Answered(e, "load")
    /\ Resolve(e)
    /\ UNCHANGED job

LoadFailed(e) ==
    /\ Answered(e, "load")
    /\ IF res[e].tryCount > MaxTryCount
       THEN Reject(e)
       ELSE /\ res' = [res EXCEPT ![e].net = "backoff"]
            /\ UNCHANGED page
    /\ UNCHANGED job

LoadAgain(e) ==
    /\ Answered(e, "backoff")
    /\ res' = [res EXCEPT ![e].net = "load", ![e].tryCount = @ + 1]
    /\ OnStatusChange(e, "loading-result")
    /\ UNCHANGED job

(* The worker and the expiry of jobs; QueryJobs has the details.            *)
JobRuns(e) ==
    /\ \/ job[e] = "queued" /\ e \notin cancelled /\ job' = [job EXCEPT ![e] = "started"]
       \/ job[e] = "started" /\ \E s \in {"done", "error", "failed"} : job' = [job EXCEPT ![e] = s]
    /\ UNCHANGED <<started, res, cancelled, inExecution, page>>

JobExpires(e) ==
    /\ job[e] \in {"done", "error", "failed"}
    /\ job' = [job EXCEPT ![e] = "gone"]
    /\ UNCHANGED <<started, res, cancelled, inExecution, page>>

Network(e) ==
    \/ PostAnswered(e) \/ CachedAnswered(e)
    \/ PollFetched(e) \/ PollAnswered(e) \/ PollLost(e) \/ PollAgain(e)
    \/ LoadAnswered(e) \/ LoadFailed(e) \/ LoadAgain(e)

ExecNext ==
    \/ Open \/ Execute \/ ApplyParameters \/ Cancel \/ Leave
    \/ \E e \in Executions : Network(e) \/ JobRuns(e) \/ JobExpires(e)

(* The browser settles every request, timers fire, and workers finish jobs. *)
ExecFairness == \A e \in Executions : WF_execVars(Network(e)) /\ WF_execVars(JobRuns(e))

ExecSpec == ExecInit /\ [][ExecNext]_execVars /\ ExecFairness

-----------------------------------------------------------------------------
(* Whatever order the executions end in, the result or the error the page  *)
(* shows when it is idle is that of the execution the user started last.   *)
OnlyTheLastIsShown ==
    page.mounted /\ ~page.isExecuting => page.result \in {0, started}

(* While the page waits, the execution it waits for still has a request or *)
(* a timer: nothing that fails on the way is forgotten, except a start     *)
(* that is forbidden, for which the page waits until another is started.   *)
WaitingIsBacked ==
    page.mounted /\ page.isExecuting =>
        /\ inExecution = started /\ ~res[started].settled
        /\ res[started].net # "none" \/ res[started].forbidden

(* Every execution ends on the page, with a result or an error, unless the *)
(* user leaves or the server forbids it: a job that finishes between the   *)
(* two reads of a poll, one that expires, and a result that cannot be      *)
(* loaded included.                                                        *)
ExecutionsEnd ==
    (page.mounted /\ page.isExecuting) ~>
        (~page.mounted \/ ~page.isExecuting \/ res[started].forbidden)
=============================================================================
