------------------------------ MODULE MCClient ------------------------------
(* A browser has one of the client's pages open. The others rest in one of  *)
(* their initial states.                                                    *)
EXTENDS QueryExecution, QueryPage, DashboardLoading, DashboardLayout, WidgetHeights,
        ScreenEditor, ItemsLists, AlertPage, QueryParameters, DatasetJoins

VARIABLE visit

Pages == {"execution", "query", "loading", "layout", "heights", "screen", "list", "alert",
          "parameters", "dataset"}
One(S) == CHOOSE x \in S : TRUE

ClientInit ==
    /\ visit \in Pages
    /\ ExecInit
    /\ QueryPageInit /\ (visit # "query" => ~isNew)
    /\ LoadingInit /\ (visit # "loading" => param = One(ParamValues))
    /\ LayoutInit /\ (visit # "layout" => grid = [w \in GridWidgets |-> One(Positions)])
    /\ HeightsInit /\ (visit # "heights" => onPage = {} /\ auto = {})
    /\ ScreenInit /\ (visit # "screen" => loadPhase = "shown")
    /\ ListInit /\ (visit # "list" => ~isPlainList /\ count = 0 /\ controls.page = 1
                                      /\ controls.itemsPerPage = One(PageSizes))
    /\ AlertPageInit /\ alertCopy.alert.query \in {"none", One(AlertQueries)}
    /\ (visit # "alert" => alertMode = "new")
    /\ ParametersInit /\ (visit # "parameters" => disableUrlUpdate)
    /\ DatasetInit

ClientNext ==
    /\ UNCHANGED visit
    /\ IF visit = "execution" THEN ExecNext ELSE UNCHANGED execVars
    /\ IF visit = "query" THEN QueryPageNext ELSE UNCHANGED queryVars
    /\ IF visit = "loading" THEN LoadingNext ELSE UNCHANGED loadingVars
    /\ IF visit = "layout" THEN LayoutNext ELSE UNCHANGED layoutVars
    /\ IF visit = "heights" THEN HeightsNext ELSE UNCHANGED heightVars
    /\ IF visit = "screen" THEN ScreenNext ELSE UNCHANGED screenVars
    /\ IF visit = "list" THEN ListNext ELSE UNCHANGED listVars
    /\ IF visit = "alert" THEN AlertPageNext ELSE UNCHANGED alertVars
    /\ IF visit = "parameters" THEN ParametersNext ELSE UNCHANGED parametersVars
    /\ IF visit = "dataset" THEN DatasetNext ELSE UNCHANGED datasetVars

clientVars == <<visit, execVars, queryVars, loadingVars, layoutVars, heightVars, screenVars,
                listVars, alertVars, parametersVars, datasetVars>>

ClientSpec ==
    /\ ClientInit /\ [][ClientNext]_clientVars
    /\ ExecFairness /\ LoadingFairness /\ LayoutFairness

(* The types of all the pages' states. *)
ClientTypeOK ==
    /\ ExecTypeOK /\ QueryPageTypeOK /\ LoadingTypeOK /\ LayoutTypeOK
    /\ HeightsTypeOK /\ ScreenTypeOK /\ ListTypeOK /\ AlertPageTypeOK
    /\ ParametersTypeOK /\ DatasetTypeOK
=============================================================================
