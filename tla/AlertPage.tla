----------------------------- MODULE AlertPage -----------------------------
(***************************************************************************)
(* The page of an alert (Alert.jsx): its copy of the alert, the result of  *)
(* the query it is about, and the requests that create, save, mute and     *)
(* delete it, answered one after the other or crosswise.  Each query has   *)
(* one column, which is called like the query.                             *)
(***************************************************************************)
EXTENDS Integers, Sequences

CONSTANTS
    AlertQueries,       \* the queries an alert can be about
    MaxAlertEdits,      \* bound: edits of the form, not counting a cleared query
    MaxAlertRequests    \* bound: requests of one visit

ASSUME AlertPageAssumption ==
    /\ MaxAlertEdits \in Nat /\ MaxAlertRequests \in Nat \ {0}
    /\ "none" \notin AlertQueries

VARIABLES
    alertMode,          \* MODES, "left", or "broken": the error page after a render that threw
    alertCopy,          \* state.alert, with its id (0: not created)
    pendingRearm,
    alertResult,        \* state.queryResult: the query it is of
    resultRequests,     \* queries whose result is awaited
    alertRequests,
    alertRows,          \* the stored alerts
    alertEdits, sent,
    unsaved,            \* history: the page has edits that were not saved
    requestsCrossed,    \* history: two requests at once, or an answer that got lost
    resultsCrossed      \* history: two results, or a result and a save, awaited at once

alertVars == <<alertMode, alertCopy, pendingRearm, alertResult, resultRequests, alertRequests,
               alertRows, alertEdits, sent, unsaved, requestsCrossed, resultsCrossed>>

MaybeQuery == AlertQueries \union {"none"}
Alerts == [query : MaybeQuery, column : MaybeQuery, value : 0 .. MaxAlertEdits,
           rearm : 0 .. 1, muted : BOOLEAN]
Copies == [id : 0 .. MaxAlertRequests, alert : Alerts]

AlertPageTypeOK ==
    /\ alertMode \in {"new", "view", "edit", "left", "broken"}
    /\ alertCopy \in Copies /\ pendingRearm \in 0 .. 1
    /\ alertResult \in MaybeQuery /\ resultRequests \subseteq AlertQueries
    /\ alertRequests \subseteq
         [number : 1 .. MaxAlertRequests, kind : {"save", "mute", "unmute", "delete"},
          copy : Copies, done : BOOLEAN]
    /\ \A id \in DOMAIN alertRows : alertRows[id] \in Alerts
    /\ {unsaved, requestsCrossed, resultsCrossed} \subseteq BOOLEAN

New == [query |-> "none", column |-> "none", value |-> 0, rearm |-> 0, muted |-> FALSE]
Deleted == New          \* no stored alert is without a query

\* componentDidMount, once the alert is there.  Its column may be gone from the query's result.
AlertPageInit ==
    /\ \/ alertMode = "new" /\ alertRows = <<>> /\ alertCopy = [id |-> 0, alert |-> New]
       \/ /\ alertMode \in {"view", "edit"}
          /\ \E q, c \in AlertQueries : alertRows = <<[New EXCEPT !.query = q, !.column = c]>>
          /\ alertCopy = [id |-> 1, alert |-> alertRows[1]]
    /\ resultRequests = {alertCopy.alert.query} \ {"none"}
    /\ pendingRearm = 0 /\ alertResult = "none" /\ alertRequests = {}
    /\ alertEdits = 0 /\ sent = 0
    /\ unsaved = FALSE /\ requestsCrossed = FALSE /\ resultsCrossed = FALSE

Editing == alertMode \in {"new", "edit"}

-----------------------------------------------------------------------------
(* The form.                                                                *)

OnQuerySelected ==
    /\ Editing /\ alertEdits < MaxAlertEdits /\ alertEdits' = alertEdits + 1
    /\ \E q \in AlertQueries :
          /\ alertCopy' = [alertCopy EXCEPT !.alert.query = q]
          /\ resultRequests' = resultRequests \union {q}
    /\ alertResult' = "none"
    /\ resultsCrossed' = (resultsCrossed \/ resultRequests # {} \/ alertRequests # {})
    /\ unsaved' = TRUE
    /\ UNCHANGED <<alertMode, pendingRearm, alertRequests, alertRows, sent, requestsCrossed>>

\* The clear icon: onQuerySelected(null).  Nobody cancels a request for the old query's result.
OnQueryCleared ==
    /\ Editing /\ alertCopy.alert.query # "none"
    /\ alertCopy' = [alertCopy EXCEPT !.alert.query = "none"]
    /\ alertResult' = "none" /\ unsaved' = TRUE
    /\ UNCHANGED <<alertMode, pendingRearm, resultRequests, alertRequests, alertRows, alertEdits,
                   sent, requestsCrossed, resultsCrossed>>

\* What is rendered in this mode of a result, or for viewing, reads the query's name and id.
Rendered(mode) == IF alertCopy.alert.query = "none" THEN "broken" ELSE mode

\* Mutant: the column stays although the result does not have it.
ColumnOfKept(column, q) == IF column = "none" THEN q ELSE column

\* The default is the first column, if none is chosen or it is none of the result's.
ColumnOf(column, q) == IF column = q THEN column ELSE q

ResultArrives ==
    \E q \in resultRequests :
        LET column == ColumnOf(alertCopy.alert.column, q) IN
        /\ resultRequests' = resultRequests \ {q}
        /\ alertResult' = q
        /\ alertMode' = Rendered(alertMode)
        /\ alertCopy' = [alertCopy EXCEPT !.alert.column = column]
        /\ unsaved' = (unsaved \/ column # alertCopy.alert.column)
        /\ UNCHANGED <<pendingRearm, alertRequests, alertRows, alertEdits, sent,
                       requestsCrossed, resultsCrossed>>

\* Nobody catches the failure: the page goes on "Loading query data".
ResultFails ==
    \E q \in resultRequests :
        /\ resultRequests' = resultRequests \ {q}
        /\ UNCHANGED <<alertMode, alertCopy, pendingRearm, alertResult, alertRequests, alertRows,
                       alertEdits, sent, unsaved, requestsCrossed, resultsCrossed>>

\* onNameChange and setAlertOptions from the criteria and the template, and onRearmChange.
Change ==
    /\ Editing /\ alertCopy.alert.query # "none" /\ alertEdits < MaxAlertEdits
    /\ alertEdits' = alertEdits + 1 /\ unsaved' = TRUE
    /\ \/ alertCopy' = [alertCopy EXCEPT !.alert.value = alertEdits'] /\ UNCHANGED pendingRearm
       \/ /\ alertResult # "none" /\ pendingRearm' = 1 - pendingRearm
          /\ UNCHANGED alertCopy
    /\ UNCHANGED <<alertMode, alertResult, resultRequests, alertRequests, alertRows, sent,
                   requestsCrossed, resultsCrossed>>

EditOrCancel ==
    /\ \/ alertMode = "view" /\ alertMode' = "edit"
       \/ alertMode = "edit" /\ alertMode' = Rendered("view")
    /\ UNCHANGED <<alertCopy, pendingRearm, alertResult, resultRequests, alertRequests, alertRows,
                   alertEdits, sent, unsaved, requestsCrossed, resultsCrossed>>

-----------------------------------------------------------------------------
(* Requests.  No button is disabled while one is under way.                 *)

Send(kind) ==
    /\ sent < MaxAlertRequests /\ sent' = sent + 1
    /\ alertRequests' = alertRequests \union
          {[number |-> sent', kind |-> kind, copy |-> alertCopy', done |-> FALSE]}
    /\ requestsCrossed' = (requestsCrossed \/ alertRequests # {})

SaveAlert ==
    /\ Editing /\ alertCopy.alert.query # "none"
    /\ alertCopy' = [alertCopy EXCEPT !.alert.rearm = pendingRearm]
    /\ Send("save")
    /\ resultsCrossed' = (resultsCrossed \/ resultRequests # {})
    /\ UNCHANGED <<alertMode, pendingRearm, alertResult, resultRequests, alertRows, alertEdits,
                   unsaved>>

\* Save Changes is not disabled: the rearm is set, transformRequest throws and nothing is sent.
SaveWithoutQuery ==
    /\ alertMode = "edit" /\ alertCopy.alert.query = "none"
    /\ alertCopy' = [alertCopy EXCEPT !.alert.rearm = pendingRearm]
    /\ unsaved' = TRUE
    /\ UNCHANGED <<alertMode, pendingRearm, alertResult, resultRequests, alertRequests, alertRows,
                   alertEdits, sent, requestsCrossed, resultsCrossed>>

MuteOrDelete ==
    /\ alertMode \in {"view", "edit"} /\ UNCHANGED alertCopy
    /\ \/ Send(IF alertCopy.alert.muted THEN "unmute" ELSE "mute")
       \/ Send("delete")
    /\ UNCHANGED <<alertMode, pendingRearm, alertResult, resultRequests, alertRows, alertEdits,
                   unsaved, resultsCrossed>>

\* The server creates or updates the alert (muted is one of the options, which are posted as a
\* whole), sets or clears muted, or deletes.  The answer of a save is the alert with its id.
Carried(r) ==
    LET id == r.copy.id IN
    IF r.kind = "save" /\ id = 0
    THEN /\ alertRows' = Append(alertRows, r.copy.alert)
         /\ alertRequests' = (alertRequests \ {r}) \union
              {[r EXCEPT !.done = TRUE, !.copy.id = Len(alertRows')]}
    ELSE /\ alertRows[id] # Deleted
         /\ alertRows' = [alertRows EXCEPT ![id] =
              CASE r.kind = "save"   -> r.copy.alert
                [] r.kind = "mute"   -> [@ EXCEPT !.muted = TRUE]
                [] r.kind = "unmute" -> [@ EXCEPT !.muted = FALSE]
                [] r.kind = "delete" -> Deleted]
         /\ alertRequests' = (alertRequests \ {r}) \union {[r EXCEPT !.done = TRUE]}

CarryOutAlert ==
    \E r \in alertRequests :
        /\ ~r.done /\ Carried(r)
        /\ UNCHANGED <<alertMode, alertCopy, pendingRearm, alertResult, resultRequests, alertEdits,
                       sent, unsaved, requestsCrossed, resultsCrossed>>

\* Mutant: the options are replaced by the one that changed.
OptionsReplaced(alert, muted) ==
    [New EXCEPT !.query = alert.query, !.rearm = alert.rearm, !.muted = muted]

\* setAlertOptions({ muted })
Options(alert, muted) == [alert EXCEPT !.muted = muted]

AnswerAlert ==
    \E r \in alertRequests :
        /\ r.done /\ alertRequests' = alertRequests \ {r}
        /\ \/ /\ r.kind = "save" /\ alertCopy' = r.copy /\ alertMode' = "view" /\ unsaved' = FALSE
           \/ /\ r.kind \in {"mute", "unmute"}
              /\ alertCopy' = [alertCopy EXCEPT !.alert = Options(@, r.kind = "mute")]
              /\ UNCHANGED <<alertMode, unsaved>>
           \/ r.kind = "delete" /\ alertMode' = "left" /\ UNCHANGED <<alertCopy, unsaved>>
        /\ UNCHANGED <<pendingRearm, alertResult, resultRequests, alertRows, alertEdits, sent,
                       requestsCrossed, resultsCrossed>>

\* A notification, whether or not the server had done it.
AlertRequestFails ==
    \E r \in alertRequests :
        /\ alertRequests' = alertRequests \ {r}
        /\ requestsCrossed' = (requestsCrossed \/ r.done)
        /\ unsaved' = (unsaved \/ r.kind = "save")
        /\ UNCHANGED <<alertMode, alertCopy, pendingRearm, alertResult, resultRequests, alertRows,
                       alertEdits, sent, resultsCrossed>>

AlertPageNext ==
    /\ alertMode \notin {"left", "broken"}
    /\ \/ OnQuerySelected \/ OnQueryCleared \/ ResultArrives \/ ResultFails \/ Change
       \/ EditOrCancel \/ SaveAlert \/ SaveWithoutQuery \/ MuteOrDelete
       \/ CarryOutAlert \/ AnswerAlert \/ AlertRequestFails

AlertPageSpec == AlertPageInit /\ [][AlertPageNext]_alertVars

-----------------------------------------------------------------------------
(* What the page shows for viewing is what is stored and checked, muted or *)
(* not, once its requests are answered.  It need not be after requests     *)
(* that crossed, nor with edits that were cancelled, which the page keeps, *)
(* nor with a column that was filled in and never saved.                   *)
AlertIsAsStored ==
    alertMode = "view" /\ alertRequests = {} /\ ~unsaved /\ ~requestsCrossed =>
        alertCopy.alert = alertRows[alertCopy.id]

(* A result that is shown is that of the selected query, and the alert is  *)
(* about a column of it: whatever is selected, cleared, saved and answered *)
(* in which order.  Except that a result may be overtaken by one that was  *)
(* asked for earlier; that the answer of a save brings back the column it  *)
(* was made with, or the query, while another is being selected; and that  *)
(* the result of a query that was cleared meanwhile breaks the page.       *)
ColumnIsOfQuery ==
    alertResult # "none" /\ alertMode # "broken" /\ ~resultsCrossed /\ ~requestsCrossed =>
        alertResult = alertCopy.alert.query /\ alertCopy.alert.column = alertResult
=============================================================================
