-------------------------- MODULE QueryParameters --------------------------
(***************************************************************************)
(* The parameters of a query that is being edited: the names in its text,  *)
(* the Parameter objects (services/query.js, services/parameters), which   *)
(* all copies of the query share, the panel with their inputs              *)
(* (Parameters.jsx), the URL, and the flag that keeps a query with pending *)
(* values from being executed (useQueryParameters.js).  One request is     *)
(* under way at a time: QueryPage has those that overlap.                  *)
(***************************************************************************)
EXTENDS Naturals

CONSTANTS ParamNames, Entries       \* values that are entered; "null" is none

ParameterValues == Entries \union {"null"}
NoRequest == [kind |-> "none"]

VARIABLES
    disableUrlUpdate,   \* the query is new
    text, originalText, \* the parameters the text mentions, or Broken
    parameters,         \* names of query.options.parameters
    value, pending,     \* of the Parameter objects; pending "none" is undefined
    url,                \* location.search
    dirtyFlag,
    saving,             \* the request under way
    settingsEdited      \* history: settings changed since the last change of the query object

parametersVars == <<disableUrlUpdate, text, originalText, parameters, value, pending, url, dirtyFlag,
                    saving, settingsEdited>>

Broken == {"broken"}                \* a text that Mustache cannot parse
Texts == (SUBSET ParamNames) \union {Broken}

ParametersTypeOK ==
    /\ disableUrlUpdate \in BOOLEAN /\ dirtyFlag \in BOOLEAN /\ settingsEdited \in BOOLEAN
    /\ text \in Texts /\ originalText \in Texts
    /\ parameters \subseteq ParamNames
    /\ value \in [ParamNames -> ParameterValues] /\ url \in [ParamNames -> ParameterValues]
    /\ pending \in [ParamNames -> ParameterValues \union {"none"}]
    /\ saving.kind \in {"none", "save", "rename"}

HasPending(ps, pend, val) == \E p \in ps : pend[p] # "none" /\ pend[p] # val[p]

\* updateUrl: the panel shows its parameters' values; those of others stay.
UpdateUrl(disabled, ps, val) ==
    url' = IF disabled THEN url ELSE [p \in ParamNames |-> IF p \in ps THEN val[p] ELSE url[p]]

\* A page is opened with values in its URL, which go before the stored ones.
ParametersInit ==
    /\ disableUrlUpdate \in BOOLEAN
    /\ text \in SUBSET ParamNames /\ originalText = text
    /\ parameters = text
    /\ url \in [ParamNames -> ParameterValues]
    /\ value = [p \in ParamNames |-> IF p \in parameters THEN url[p] ELSE "null"]
    /\ pending = [p \in ParamNames |-> "none"]
    /\ disableUrlUpdate => text = {} /\ \A p \in ParamNames : url[p] = "null"
    /\ dirtyFlag = FALSE /\ saving = NoRequest /\ settingsEdited = FALSE

isTextDirty == text # originalText

-----------------------------------------------------------------------------
(* query.clone(): the new Parameters object reads the URL again, and with  *)
(* it overwrites what is pending in the shared Parameter objects.          *)

ClonedValue(p) == IF url[p] # "null" THEN url[p] ELSE value[p]
ClonedPending(p) == IF url[p] # "null" THEN "none" ELSE pending[p]

\* Mutant: useQueryParameters looks at the flag only when values change.
FlagOfKept(ps, pend, val) == dirtyFlag

\* useQueryParameters' effect after a change of the query object.
FlagOf(ps, pend, val) == HasPending(ps, pend, val)

\* setQuery of a clone with the parameters ps: updateParameters gives new names empty parameters.
SetQuery(ps) ==
    /\ parameters' = ps
    /\ value' = [p \in ParamNames |->
                    IF p \in ps \intersect parameters THEN ClonedValue(p) ELSE "null"]
    /\ pending' = [p \in ParamNames |->
                    IF p \in ps \intersect parameters THEN ClonedPending(p) ELSE "none"]
    /\ UpdateUrl(disableUrlUpdate, ps, value')
    /\ dirtyFlag' = FlagOf(ps, pending', value')
    /\ settingsEdited' = FALSE

ParsedNames(t) == IF t = Broken THEN parameters ELSE t

TypeText ==
    /\ \E t \in Texts \ {text} : text' = t /\ SetQuery(ParsedNames(t))
    /\ UNCHANGED <<disableUrlUpdate, originalText, saving>>

\* The dialog for a new parameter; its name is pasted into the text later, as if it were typed.
AddNewParameter ==
    /\ \E p \in ParamNames \ parameters : SetQuery(parameters \union {p})
    /\ UNCHANGED <<disableUrlUpdate, text, originalText, saving>>

-----------------------------------------------------------------------------
(* The panel.                                                               *)

\* setPendingValue: an input is changed, or changed back.
SetPendingValue ==
    /\ \E p \in parameters, v \in ParameterValues :
          pending' = [pending EXCEPT ![p] = IF v = value[p] THEN "none" ELSE v]
    /\ dirtyFlag' = HasPending(parameters, pending', value)
    /\ UNCHANGED <<disableUrlUpdate, text, originalText, parameters, value, url, saving,
                   settingsEdited>>

\* applyChanges executes the query, too.
ApplyChanges ==
    /\ HasPending(parameters, pending, value)
    /\ value' = [p \in ParamNames |-> IF pending[p] = "none" THEN value[p] ELSE pending[p]]
    /\ pending' = [p \in ParamNames |-> "none"]
    /\ UpdateUrl(disableUrlUpdate, parameters, value')
    /\ dirtyFlag' = FALSE
    /\ UNCHANGED <<disableUrlUpdate, text, originalText, parameters, saving, settingsEdited>>

SaveRequest(val) == [kind |-> "save", text |-> text, parameters |-> parameters, value |-> val]

\* onParametersEdit
SaveIfClean(val) ==
    saving' = IF ~isTextDirty /\ saving = NoRequest THEN SaveRequest(val) ELSE saving

\* showParameterSettings: another object takes the place of the parameter.  Its type may be one that
\* does not have the value.
EditSettings ==
    /\ \E p \in parameters, v \in ParameterValues :
          /\ v \in {value[p], "null"}
          /\ value' = [value EXCEPT ![p] = v]
          /\ pending' = [pending EXCEPT ![p] = "none"]
    /\ settingsEdited' = TRUE
    /\ SaveIfClean(value')
    /\ UNCHANGED <<disableUrlUpdate, text, originalText, parameters, url, dirtyFlag>>

MoveParameter ==
    /\ \E p, q \in parameters : p # q
    /\ SaveIfClean(value)
    /\ UNCHANGED <<disableUrlUpdate, text, originalText, parameters, value, pending, url, dirtyFlag,
                   settingsEdited>>

-----------------------------------------------------------------------------
(* Requests.                                                                *)

SendSave ==
    /\ saving = NoRequest
    /\ \/ saving' = SaveRequest(value)
       \/ ~disableUrlUpdate /\ saving' = [kind |-> "rename", text |-> text]
    /\ UNCHANGED <<disableUrlUpdate, text, originalText, parameters, value, pending, url, dirtyFlag,
                   settingsEdited>>

\* The answer brings the saved options back, with the values they had when they were saved.
SavedAnswered ==
    /\ saving.kind = "save" /\ saving' = NoRequest
    /\ disableUrlUpdate' = FALSE
    /\ text' = saving.text /\ originalText' = saving.text
    /\ parameters' = saving.parameters
    /\ value' = saving.value /\ pending' = [p \in ParamNames |-> "none"]
    /\ UpdateUrl(FALSE, parameters', value')
    /\ dirtyFlag' = FlagOf(parameters', pending', value')
    /\ settingsEdited' = FALSE

\* A clone of the copy that was renamed, with its text and the shared options.
RenameAnswered ==
    /\ saving.kind = "rename" /\ saving' = NoRequest
    /\ text' = saving.text
    /\ SetQuery(parameters)
    /\ UNCHANGED <<disableUrlUpdate, originalText>>

SavingFails ==
    /\ saving # NoRequest /\ saving' = NoRequest
    /\ UNCHANGED <<disableUrlUpdate, text, originalText, parameters, value, pending, url, dirtyFlag,
                   settingsEdited>>

ParametersNext ==
    \/ TypeText \/ AddNewParameter \/ SetPendingValue \/ ApplyChanges \/ EditSettings \/ MoveParameter
    \/ SendSave \/ SavedAnswered \/ RenameAnswered \/ SavingFails

ParametersSpec == ParametersInit /\ [][ParametersNext]_parametersVars

-----------------------------------------------------------------------------
(* The query cannot be executed exactly while a value is pending that it   *)
(* would not be executed with, and the URL has the values it would.  No    *)
(* order of typing, entering, applying, moving and saving gets these out   *)
(* of step; an edit of a parameter's settings does, until the query object *)
(* changes: it drops a pending value and leaves the flag.                  *)
ParametersAgree ==
    /\ HasPending(parameters, pending, value) => dirtyFlag
    /\ dirtyFlag /\ ~settingsEdited => HasPending(parameters, pending, value)
    /\ ~disableUrlUpdate /\ ~settingsEdited => \A p \in parameters : url[p] = value[p]
=============================================================================
