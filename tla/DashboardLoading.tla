-------------------------- MODULE DashboardLoading --------------------------
(***************************************************************************)
(* The widgets of a dashboard page load their results: when the page is    *)
(* opened, when the dashboard is refreshed (by its button, by the timer of *)
(* the refresh rate, by a new parameter value) and when one widget is.     *)
(* Loads of one widget overlap, and their answers come in any order.       *)
(*                                                                         *)
(* A load is one run of services/query-result.js, from request to result   *)
(* or error (QueryExecution has its steps), with the value the dashboard's *)
(* parameter had when it was started.                                      *)
(***************************************************************************)
EXTENDS Naturals

CONSTANTS
    Widgets,        \* the visualization widgets
    MappedWidgets,  \* those with a parameter mapped to the dashboard's
    ParamValues,    \* values of the dashboard's parameter
    MaxLoads        \* bound: loads of one widget

ASSUME LoadingAssumption == MappedWidgets \subseteq Widgets /\ MaxLoads \in Nat

VARIABLES
    shownWidgets,   \* dashboard.widgets
    param,          \* the dashboard's parameter
    latest,         \* widget.queryResult: its last load, 0 before the first
    data,           \* widget.data: the load whose end came last
    loading,        \* widget.loading
    loads,          \* the loads of each widget that have not ended
    startedWith,    \* the parameter's value of each load
    refreshing,     \* the flag of useDashboard
    awaited,        \* the loads the refresh waits for
    footer,         \* the load each widget's refresh button waits for
    dropped,        \* a parameter was applied during a refresh
    overtaken       \* the widgets with a load that ended after a later one

loadingVars == <<shownWidgets, param, latest, data, loading, loads, startedWith, refreshing,
                 awaited, footer, dropped, overtaken>>

Loads == 1 .. MaxLoads

LoadingTypeOK ==
    /\ shownWidgets \subseteq Widgets /\ overtaken \subseteq Widgets
    /\ param \in ParamValues
    /\ latest \in [Widgets -> 0 .. MaxLoads] /\ data \in [Widgets -> 0 .. MaxLoads]
    /\ loading \in [Widgets -> BOOLEAN]
    /\ loads \in [Widgets -> SUBSET Loads]
    /\ startedWith \in [Widgets -> [Loads -> ParamValues]]
    /\ refreshing \in BOOLEAN /\ dropped \in BOOLEAN
    /\ awaited \subseteq Widgets \X Loads
    /\ footer \in [Widgets -> 0 .. MaxLoads]

LoadingInit ==
    /\ shownWidgets = Widgets
    /\ param \in ParamValues
    /\ latest = [w \in Widgets |-> 0] /\ data = latest /\ footer = latest
    /\ loading = [w \in Widgets |-> FALSE]
    /\ loads = [w \in Widgets |-> {}]
    /\ startedWith = [w \in Widgets |-> [n \in Loads |-> param]]
    /\ refreshing = FALSE /\ awaited = {}
    /\ dropped = FALSE /\ overtaken = {}

-----------------------------------------------------------------------------
(* Widget.load of a set of widgets: forced, or of those never loaded.       *)

(* Mutant: a load under way is not repeated. *)
MustLoadIdle(w, force) == latest[w] = 0 \/ (force /\ ~loading[w])

MustLoad(w, force) == force \/ latest[w] = 0

Load(ws, force) ==
    LET new == {w \in ws : MustLoad(w, force)} IN
    /\ \A w \in new : latest[w] < MaxLoads
    /\ latest' = [w \in Widgets |-> IF w \in new THEN latest[w] + 1 ELSE latest[w]]
    /\ loading' = [w \in Widgets |-> w \in new \/ loading[w]]
    /\ loads' = [w \in Widgets |-> IF w \in new THEN loads[w] \union {latest'[w]} ELSE loads[w]]
    /\ startedWith' = [w \in Widgets |->
                      IF w \in new THEN [startedWith[w] EXCEPT ![latest'[w]] = param'] ELSE startedWith[w]]
    /\ UNCHANGED <<data, overtaken>>

(* getAffectedWidgets. *)
Affected(byParameter) == shownWidgets \ (IF byParameter THEN Widgets \ MappedWidgets ELSE {})

(* The mount of the page, a changed filter option, edited mappings.         *)
LoadDashboard ==
    /\ UNCHANGED <<shownWidgets, param, refreshing, awaited, footer, dropped>>
    /\ Load(Affected(FALSE), FALSE)

Refresh(byParameter) ==
    /\ refreshing' = TRUE
    /\ Load(Affected(byParameter), TRUE)
    /\ awaited' = {<<w, latest'[w]>> : w \in Affected(byParameter)}
    /\ UNCHANGED <<shownWidgets, footer, dropped>>

(* The refresh button and the timer. *)
RefreshDashboard ==
    /\ ~refreshing
    /\ param' = param
    /\ Refresh(FALSE)

(* A parameter is applied: nothing is loaded during a refresh.              *)
ApplyParameter ==
    \E v \in ParamValues \ {param} :
        /\ param' = v
        /\ IF refreshing
           THEN /\ dropped' = TRUE
                /\ UNCHANGED <<shownWidgets, latest, data, loading, loads, startedWith, refreshing,
                               awaited, footer, overtaken>>
           ELSE Refresh(TRUE)

(* A widget's own parameters, or the end of its mappings dialog.            *)
RefreshWidget ==
    /\ UNCHANGED <<shownWidgets, param, refreshing, awaited, footer, dropped>>
    /\ \E w \in shownWidgets : Load({w}, TRUE)

(* The buttons of a widget's footer wait for the load they started.         *)
FooterRefresh ==
    \E w \in shownWidgets :
        /\ data[w] # 0 /\ footer[w] = 0
        /\ UNCHANGED <<shownWidgets, param, refreshing, awaited, dropped>>
        /\ Load({w}, TRUE)
        /\ footer' = [footer EXCEPT ![w] = latest'[w]]

RemoveWidget ==
    /\ \E w \in shownWidgets : shownWidgets' = shownWidgets \ {w}
    /\ UNCHANGED <<param, latest, data, loading, loads, startedWith, refreshing, awaited, footer,
                   dropped, overtaken>>

(* Mutant: the page leaves the flag to the next load of the widget. *)
EndedLoadingLate(w, n) == loading[w]

(* Any end of a load ends the widget's loading. *)
EndedLoading(w, n) == FALSE

StillAwaited(w, n) == awaited \ {<<w, n>>}

(* A load ends, with a result or an error: either is the widget's data.     *)
LoadEnds(w, n) ==
    /\ n \in loads[w]
    /\ loads' = [loads EXCEPT ![w] = @ \ {n}]
    /\ loading' = [loading EXCEPT ![w] = EndedLoading(w, n)]
    /\ data' = [data EXCEPT ![w] = n]
    /\ awaited' = StillAwaited(w, n)
    /\ footer' = [footer EXCEPT ![w] = IF @ = n THEN 0 ELSE @]
    /\ overtaken' = IF n < data[w] THEN overtaken \union {w} ELSE overtaken
    /\ UNCHANGED <<shownWidgets, param, latest, startedWith, refreshing, dropped>>

RefreshEnds ==
    /\ refreshing /\ awaited = {}
    /\ refreshing' = FALSE
    /\ UNCHANGED <<shownWidgets, param, latest, data, loading, loads, startedWith, awaited, footer,
                   dropped, overtaken>>

LoadingNext ==
    \/ LoadDashboard \/ RefreshDashboard \/ ApplyParameter \/ RefreshWidget \/ FooterRefresh
    \/ RemoveWidget \/ RefreshEnds
    \/ \E w \in Widgets, n \in Loads : LoadEnds(w, n)

(* Executions end (ExecutionsEnd of QueryExecution), promises run.          *)
LoadingFairness ==
    /\ WF_loadingVars(RefreshEnds)
    /\ \A w \in Widgets, n \in Loads : WF_loadingVars(LoadEnds(w, n))

LoadingSpec == LoadingInit /\ [][LoadingNext]_loadingVars /\ LoadingFairness

-----------------------------------------------------------------------------
(* A spinner means that the last load of the widget has not ended, and the *)
(* button of a refreshing dashboard or widget that a load it started has   *)
(* not: no overlap of loads leaves one turning.                            *)
SpinnersAreBacked ==
    /\ \A w \in Widgets : loading[w] => latest[w] \in loads[w]
    /\ \A w \in Widgets : footer[w] # 0 => footer[w] \in loads[w]
    /\ \A a \in awaited : refreshing /\ a[2] \in loads[a[1]]

(* A quiet dashboard shows the widgets with the value the parameter has,   *)
(* whatever was loaded, removed and refreshed in between.  It does not     *)
(* when the value was applied during a refresh, or for a widget with a     *)
(* load that ended after a later one.                                      *)
ParameterIsShown ==
    ~refreshing /\ ~dropped =>
        \A w \in (shownWidgets \cap MappedWidgets) \ overtaken :
            data[w] # 0 /\ loads[w] = {} => startedWith[w][data[w]] = param

(* Refreshes end, so that the timer's next one is not skipped for ever.     *)
RefreshesEnd == refreshing ~> ~refreshing
=============================================================================
