---------------------------- MODULE ScreenEditor ----------------------------
(***************************************************************************)
(* The editor of a data screen (pages/screen/Screen.jsx): charts on a      *)
(* page, one above the other, and for each configured chart a setting that *)
(* says where its data comes from.  A chart and its setting are bound by   *)
(* the chart's id, which is the second it was added in.  The drawer that   *)
(* configures a chart opens after the data sources have answered, and a    *)
(* stored screen is shown after its settings and its queries have.         *)
(*                                                                         *)
(* A chart is its id and its z-index: size, place and data are left out. A *)
(* setting is the id of its chart.                                         *)
(***************************************************************************)
EXTENDS Naturals, Sequences, FiniteSets

CONSTANTS
    MaxCharts,      \* bound: charts of one screen
    MaxSeconds,     \* bound: the clock
    MaxSaves,       \* bound: saves under way
    MaxOperations   \* bound: operations on charts in one visit

ASSUME ScreenAssumption == {MaxCharts, MaxSeconds, MaxSaves, MaxOperations} \subseteq Nat \ {0}

VARIABLES
    charts,         \* screenCharts
    settings,       \* screenChartsVisualSettings
    active,         \* activeChartIndex, 0 when it is null
    second,         \* the clock
    operations,     \* how many operations on charts there were
    loadPhase,      \* "fetching" the screen, "querying" its data, "shown", "stuck"
    opening,        \* charts whose drawer waits for the data sources
    drawer,         \* currentEditChartOption, currentChartVisualSetting, chartItemInEdit
    saves,          \* saves of the screen under way
    storedScreen,   \* the screen the server has
    screenSaved,    \* the page says that the screen was saved
    raced           \* a chart changed under its drawer, or was added while the screen loaded

screenVars == <<charts, settings, active, second, operations, loadPhase, opening, drawer,
                saves, storedScreen, screenSaved, raced>>

Ids == 0 .. MaxSeconds
Charts == [id : Ids, z : 0 .. MaxCharts]
NoChart == [id |-> 0, z |-> MaxCharts + 1]
Closed == [chart |-> NoChart, setting |-> 0, open |-> FALSE]

IdsOf(cs) == {cs[i].id : i \in DOMAIN cs}
SettingsOf(ss) == {ss[i] : i \in DOMAIN ss}

ScreenTypeOK ==
    /\ charts \in Seq(Charts) /\ Len(charts) <= MaxCharts
    /\ settings \in Seq(Ids)
    /\ active \in 0 .. Len(charts)
    /\ second \in Ids /\ operations \in 0 .. MaxOperations
    /\ loadPhase \in {"fetching", "querying", "shown", "stuck"}
    /\ opening \subseteq Charts
    /\ drawer.chart \in Charts \union {NoChart} /\ drawer.setting \in Ids /\ drawer.open \in BOOLEAN
    /\ \A s \in saves \union {storedScreen} : s.charts \in Seq(Charts) /\ s.settings \in Seq(Ids)
    /\ Cardinality(saves) <= MaxSaves
    /\ screenSaved \in BOOLEAN /\ raced \in BOOLEAN

(* A new screen, or one with a configured chart that was stored before.     *)
ScreenInit ==
    /\ charts = <<>> /\ settings = <<>> /\ active = 0
    /\ second = 1 /\ operations = 0
    /\ \/ loadPhase = "shown" /\ storedScreen = [charts |-> <<>>, settings |-> <<>>]
       \/ loadPhase = "fetching" /\ storedScreen = [charts |-> <<[id |-> 0, z |-> 0]>>,
                                                    settings |-> <<0>>]
    /\ opening = {} /\ drawer = Closed
    /\ saves = {} /\ screenSaved = FALSE /\ raced = FALSE

-----------------------------------------------------------------------------
(* Loading: the settings are set when the screen is fetched, the charts     *)
(* when all queries have answered.  A failure leaves the spinner.           *)

LoadFetched ==
    /\ loadPhase = "fetching"
    /\ \/ loadPhase' = "querying" /\ settings' = storedScreen.settings
       \/ loadPhase' = "stuck" /\ UNCHANGED settings
    /\ UNCHANGED <<charts, active, second, operations, opening, drawer, saves, storedScreen, screenSaved, raced>>

(* getRectAxisDataBySetting throws for a setting without a chart.           *)
CanShow(screen) == SettingsOf(screen.settings) \subseteq IdsOf(screen.charts)

LoadQueried ==
    /\ loadPhase = "querying"
    /\ \/ /\ CanShow(storedScreen)
          /\ loadPhase' = "shown" /\ charts' = storedScreen.charts
       \/ loadPhase' = "stuck" /\ UNCHANGED charts
    /\ UNCHANGED <<settings, active, second, operations, opening, drawer, saves, storedScreen, screenSaved,
                   raced>>

-----------------------------------------------------------------------------
(* The charts.  The drawer, when it is open, covers them.                   *)

Operation == operations < MaxOperations /\ operations' = operations + 1

Editable == ~drawer.open /\ ~screenSaved

Tick ==
    /\ second < MaxSeconds /\ second' = second + 1
    /\ UNCHANGED <<charts, settings, active, operations, loadPhase, opening, drawer, saves, storedScreen,
                   screenSaved, raced>>

(* Mutant: the new chart has no z-index of its own. *)
AddedLow(cs, id) == Append(cs, [id |-> id, z |-> 0])

Added(cs, id) == Append(cs, [id |-> id, z |-> Len(cs)])

(* dropdownItemClick: the list is in the header, which a loading screen has *)
AddChart ==
    /\ Operation
    /\ Editable /\ Len(charts) < MaxCharts
    /\ charts' = Added(charts, second)
    /\ raced' = (raced \/ loadPhase # "shown")
    /\ UNCHANGED <<settings, active, second, loadPhase, opening, drawer, saves, storedScreen,
                   screenSaved>>

(* resetZindex: the chart goes to the top, the others keep their order in   *)
(* the array.                                                               *)
Raised(cs, index) ==
    [i \in DOMAIN cs |->
        [cs[i] EXCEPT !.z = IF i = index THEN Len(cs) - 1 ELSE IF i < index THEN i - 1 ELSE i - 2]]

Visible == Editable /\ loadPhase = "shown"

ActivateChart ==
    /\ Operation
    /\ Visible
    /\ \E index \in DOMAIN charts : active' = index /\ charts' = Raised(charts, index)
    /\ UNCHANGED <<settings, second, loadPhase, opening, drawer, saves, storedScreen, screenSaved,
                   raced>>

CancelActive ==
    /\ Visible /\ active' = 0
    /\ UNCHANGED <<charts, settings, second, operations, loadPhase, opening, drawer, saves, storedScreen,
                   screenSaved, raced>>

Without(s, i) == [j \in 1 .. Len(s) - 1 |-> IF j < i THEN s[j] ELSE s[j + 1]]
FirstWith(s, P(_)) == {i \in DOMAIN s : P(s[i]) /\ \A j \in 1 .. i - 1 : ~P(s[j])}

(* Mutant: the setting stays. *)
WithoutSettingKept(ss, id) == ss

(* The first setting of the chart goes with it.                             *)
WithoutSetting(ss, id) ==
    IF id \in SettingsOf(ss)
    THEN Without(ss, CHOOSE i \in FirstWith(ss, LAMBDA s : s = id) : TRUE)
    ELSE ss

(* The icons of a chart are shown for the active one.                       *)
DeleteChart ==
    /\ Operation
    /\ Visible /\ active # 0
    /\ settings' = WithoutSetting(settings, charts[active].id)
    /\ charts' = Without(charts, active)
    /\ active' = 0
    /\ UNCHANGED <<second, loadPhase, opening, drawer, saves, storedScreen, screenSaved, raced>>

CopyChart ==
    /\ Operation
    /\ Visible /\ active # 0 /\ Len(charts) < MaxCharts
    /\ charts' = Raised(Added(charts, second), Len(charts) + 1)
    /\ settings' = IF charts[active].id \in SettingsOf(settings) THEN Append(settings, second)
                   ELSE settings
    /\ active' = Len(charts) + 1
    /\ UNCHANGED <<second, loadPhase, opening, drawer, saves, storedScreen, screenSaved, raced>>

-----------------------------------------------------------------------------
(* The drawer. *)

EditChart ==
    /\ Operation
    /\ Visible /\ active # 0
    /\ drawer' = [drawer EXCEPT !.chart = charts[active]]
    /\ opening' = opening \union {charts[active]}
    /\ UNCHANGED <<charts, settings, active, second, loadPhase, saves, storedScreen, screenSaved,
                   raced>>

(* The data sources have answered, in vain or not: the setting is that of   *)
(* the chart the drawer was opened for.                                     *)
DrawerOpens ==
    \E c \in opening :
        /\ opening' = opening \ {c}
        /\ drawer' = [drawer EXCEPT !.setting = c.id, !.open = TRUE]
        /\ UNCHANGED <<charts, settings, active, second, operations, loadPhase, saves, storedScreen,
                       screenSaved, raced>>

DrawerCancel ==
    /\ drawer.open /\ drawer' = Closed
    /\ UNCHANGED <<charts, settings, active, second, operations, loadPhase, opening, saves, storedScreen,
                   screenSaved, raced>>

Stale(d) == d.chart \notin {charts[i] : i \in DOMAIN charts} \/ d.setting # d.chart.id

(* The last chart stands in for one that is not found: splice(-1, 1, chart).*)
PutBack(cs, c) ==
    LET found == FirstWith(cs, LAMBDA d : d.id = c.id) IN
    IF cs = <<>> THEN <<c>>
    ELSE [cs EXCEPT ![IF found = {} THEN Len(cs) ELSE CHOOSE i \in found : TRUE] = c]

(* saveCurrentSetting: the setting, then the chart.  Without a chart it     *)
(* throws after the setting, and the drawer stays.                          *)
DrawerSave ==
    /\ drawer.open
    /\ settings' = IF drawer.setting \in SettingsOf(settings) THEN settings
                   ELSE Append(settings, drawer.setting)
    /\ IF drawer.chart = NoChart
       THEN UNCHANGED <<charts, drawer>>
       ELSE charts' = PutBack(charts, drawer.chart) /\ drawer' = Closed
    /\ raced' = (raced \/ Stale(drawer))
    /\ UNCHANGED <<active, second, operations, loadPhase, opening, saves, storedScreen, screenSaved>>

-----------------------------------------------------------------------------
(* Saving: the button does not wait for the answer. *)

SaveScreen ==
    /\ Editable /\ charts # <<>> /\ Cardinality(saves) < MaxSaves
    /\ saves' = saves \union {[charts |-> charts, settings |-> settings]}
    /\ UNCHANGED <<charts, settings, active, second, operations, loadPhase, opening, drawer, storedScreen,
                   screenSaved, raced>>

SaveAnswered ==
    \E s \in saves :
        /\ saves' = saves \ {s}
        /\ \/ /\ storedScreen' = s
              /\ charts' = <<>> /\ settings' = <<>> /\ drawer' = Closed
              /\ active' = 0
              /\ screenSaved' = TRUE
           \/ UNCHANGED <<storedScreen, charts, settings, drawer, active, screenSaved>>
        /\ UNCHANGED <<second, operations, loadPhase, opening, raced>>

ScreenNext ==
    \/ LoadFetched \/ LoadQueried \/ Tick \/ AddChart \/ ActivateChart \/ CancelActive
    \/ DeleteChart \/ CopyChart \/ EditChart \/ DrawerOpens \/ DrawerCancel \/ DrawerSave
    \/ SaveScreen \/ SaveAnswered

ScreenSpec == ScreenInit /\ [][ScreenNext]_screenVars

-----------------------------------------------------------------------------
(* A new or copied chart is painted above all others: of two with the same *)
(* z-index the later one in the array is above.  Deletions, copies and     *)
(* activations leave gaps and ties, and the new z-index is only the number *)
(* of charts.  A drawer that puts back an older copy of a chart spoils it. *)
NewChartIsOnTop ==
    [][~raced' /\ Len(charts') > Len(charts) =>
          \A i \in DOMAIN charts' : charts'[i].z <= charts'[Len(charts')].z]_screenVars

(* Every setting has its chart, whatever is copied within one second,      *)
(* deleted and configured, unless the editor raced: a screen is stored     *)
(* that can be loaded again.                                               *)
SettingsHaveCharts ==
    ~raced => /\ loadPhase = "shown" => SettingsOf(settings) \subseteq IdsOf(charts)
              /\ CanShow(storedScreen)
=============================================================================
