-------------------------- MODULE DashboardProofs ---------------------------
(***************************************************************************)
(* The pages that show charts: the spinners and values of a dashboard, the *)
(* saves of its layout, the timer of its heights, and the charts and settings *)
(* of a data screen, for any widgets, values, positions and numbers of loads, *)
(* moves, charts and saves.                                                *)
(***************************************************************************)
EXTENDS DashboardLoading, DashboardLayout, WidgetHeights, ScreenEditor, FiniteSetTheorems,
        WellFoundedInduction, TLAPS

(* Loads.                                                                   *)

\* Loads are numbered in the order in which they start.
Numbered(w) == loads[w] \subseteq 1 .. latest[w] /\ data[w] <= latest[w]

Spinning(w) == loading[w] => latest[w] \in loads[w]
FooterWaits(w) == footer[w] # 0 => footer[w] \in loads[w]

\* No load that has ended is younger than what is shown, unless one was overtaken.
ShowsYoungest(w) == w \notin overtaken => \A n \in 1 .. latest[w] : n \notin loads[w] => n <= data[w]

\* The last load of a widget has the parameter's value, unless a value was dropped.
LatestHasParam(w) ==
    ~dropped /\ w \in shownWidgets \cap MappedWidgets /\ latest[w] # 0 =>
        startedWith[w][latest[w]] = param

AwaitedRun == \A a \in awaited : refreshing /\ a[2] \in loads[a[1]]

WidgetInv(w) ==
    Numbered(w) /\ Spinning(w) /\ FooterWaits(w) /\ ShowsYoungest(w) /\ LatestHasParam(w)

LoadingInv == LoadingTypeOK /\ (\A w \in Widgets : WidgetInv(w)) /\ AwaitedRun

-----------------------------------------------------------------------------

(* What Widget.load does to one widget: a new load, or nothing.            *)
Fresh(w) ==
    /\ latest'[w] = latest[w] + 1 /\ latest'[w] \in Loads
    /\ loads'[w] = loads[w] \union {latest'[w]}
    /\ loading'[w] = TRUE
    /\ startedWith'[w] \in [Loads -> ParamValues]
    /\ startedWith'[w][latest'[w]] = param'

Untouched(w) ==
    /\ latest'[w] = latest[w] /\ loads'[w] = loads[w] /\ loading'[w] = loading[w]
    /\ startedWith'[w] = startedWith[w]

LEMMA LoadIsPerWidget ==
    ASSUME LoadingTypeOK, param' \in ParamValues,
           NEW ws, ws \subseteq Widgets, NEW force \in BOOLEAN, Load(ws, force),
           NEW w \in Widgets
    PROVE  /\ Fresh(w) \/ Untouched(w)
           /\ force /\ w \in ws => Fresh(w)
<1> DEFINE new == {u \in ws : MustLoad(u, force)}
<1>1. /\ \A u \in new : latest[u] < MaxLoads
      /\ latest' = [u \in Widgets |-> IF u \in new THEN latest[u] + 1 ELSE latest[u]]
      /\ loading' = [u \in Widgets |-> u \in new \/ loading[u]]
      /\ loads' = [u \in Widgets |-> IF u \in new THEN loads[u] \union {latest'[u]} ELSE loads[u]]
      /\ startedWith' = [u \in Widgets |->
            IF u \in new THEN [startedWith[u] EXCEPT ![latest'[u]] = param'] ELSE startedWith[u]]
  BY DEF Load
<1>2. force /\ w \in ws => w \in new
  BY DEF MustLoad
<1>3. /\ latest[w] \in 0 .. MaxLoads /\ MaxLoads \in Nat /\ loading[w] \in BOOLEAN
      /\ startedWith[w] \in [Loads -> ParamValues]
  BY LoadingAssumption DEF LoadingTypeOK
<1> HIDE DEF new
<1>4. CASE w \in new
  <2>1. /\ latest'[w] = latest[w] + 1 /\ latest[w] < MaxLoads
        /\ loads'[w] = loads[w] \union {latest'[w]}
        /\ startedWith'[w] = [startedWith[w] EXCEPT ![latest'[w]] = param']
    BY <1>1, <1>4
  <2>2. loading'[w] = TRUE
    BY <1>1, <1>4
  <2>3. latest'[w] \in Loads
    BY <1>3, <2>1, SMT DEF Loads
  <2>4. /\ startedWith'[w] \in [Loads -> ParamValues]
        /\ startedWith'[w][latest'[w]] = param'
    BY <1>3, <2>1, <2>3
  <2> QED
    BY <2>1, <2>2, <2>3, <2>4 DEF Fresh
<1>5. CASE w \notin new
  <2>1. latest'[w] = latest[w] /\ loads'[w] = loads[w] /\ startedWith'[w] = startedWith[w]
    BY <1>1, <1>5
  <2>2. loading'[w] = loading[w]
    BY <1>1, <1>3, <1>5, Zenon
  <2> QED
    BY <1>2, <1>5, <2>1, <2>2 DEF Untouched
<1> QED
  BY <1>4, <1>5

LEMMA LoadKeepsTypes ==
    ASSUME LoadingTypeOK, param' \in ParamValues,
           NEW ws, ws \subseteq Widgets, NEW force \in BOOLEAN, Load(ws, force)
    PROVE  /\ latest' \in [Widgets -> 0 .. MaxLoads]
           /\ loading' \in [Widgets -> BOOLEAN]
           /\ loads' \in [Widgets -> SUBSET Loads]
           /\ startedWith' \in [Widgets -> [Loads -> ParamValues]]
           /\ data' = data /\ overtaken' = overtaken
<1>1. /\ latest' = [u \in Widgets |-> latest'[u]] /\ loading' = [u \in Widgets |-> loading'[u]]
      /\ loads' = [u \in Widgets |-> loads'[u]]
      /\ startedWith' = [u \in Widgets |-> startedWith'[u]]
  BY DEF Load
<1>2. ASSUME NEW w \in Widgets
      PROVE  /\ latest'[w] \in 0 .. MaxLoads /\ loading'[w] \in BOOLEAN
             /\ loads'[w] \in SUBSET Loads /\ startedWith'[w] \in [Loads -> ParamValues]
  <2>1. /\ latest[w] \in 0 .. MaxLoads /\ loading[w] \in BOOLEAN /\ loads[w] \in SUBSET Loads
        /\ startedWith[w] \in [Loads -> ParamValues] /\ MaxLoads \in Nat
    BY LoadingAssumption DEF LoadingTypeOK
  <2>2. Fresh(w) \/ Untouched(w)
    BY LoadIsPerWidget
  <2>3. CASE Fresh(w)
    <3>1. /\ latest'[w] \in Loads /\ loads'[w] = loads[w] \union {latest'[w]}
          /\ loading'[w] = TRUE /\ startedWith'[w] \in [Loads -> ParamValues]
      BY <2>3 DEF Fresh
    <3>2. latest'[w] \in 0 .. MaxLoads
      BY <2>1, <3>1, SMT DEF Loads
    <3>3. loads'[w] \in SUBSET Loads
      BY <2>1, <3>1
    <3> QED
      BY <3>1, <3>2, <3>3
  <2>4. CASE Untouched(w)
    BY <2>1, <2>4 DEF Untouched
  <2> QED
    BY <2>2, <2>3, <2>4
<1>3. data' = data /\ overtaken' = overtaken
  BY DEF Load
<1> QED
  BY <1>1, <1>2, <1>3

(* A load of widgets keeps what is known of each, if the parameter stays,  *)
(* or every shown widget that depends on it is loaded.  Footers that wait  *)
(* keep waiting.                                                           *)
LEMMA LoadKeepsWidgets ==
    ASSUME LoadingTypeOK, param' \in ParamValues,
           NEW ws, ws \subseteq Widgets, NEW force \in BOOLEAN, Load(ws, force),
           shownWidgets' = shownWidgets, dropped' = dropped,
           param' = param \/ (force /\ shownWidgets \cap MappedWidgets \subseteq ws),
           NEW w \in Widgets, WidgetInv(w)
    PROVE  /\ Numbered(w)' /\ Spinning(w)' /\ ShowsYoungest(w)' /\ LatestHasParam(w)'
           /\ footer'[w] = footer[w] => FooterWaits(w)'
           /\ loads[w] \subseteq loads'[w]
           /\ force /\ w \in ws => latest'[w] \in loads'[w]
<1>1. /\ latest[w] \in 0 .. MaxLoads /\ data[w] \in 0 .. MaxLoads /\ loads[w] \in SUBSET Loads
      /\ MaxLoads \in Nat
  BY LoadingAssumption DEF LoadingTypeOK
<1>2. data'[w] = data[w] /\ overtaken' = overtaken
  BY DEF Load
<1>3. (Fresh(w) \/ Untouched(w)) /\ (force /\ w \in ws => Fresh(w))
  BY LoadIsPerWidget
<1>4. CASE Fresh(w)
  <2>1. Numbered(w)'
    BY <1>1, <1>2, <1>4, SMT DEF WidgetInv, Numbered, Fresh
  <2>2. Spinning(w)' /\ loads[w] \subseteq loads'[w] /\ latest'[w] \in loads'[w]
    BY <1>4 DEF Spinning, Fresh
  <2>3. ShowsYoungest(w)'
    <3>1. ASSUME w \notin overtaken, NEW n \in 1 .. latest'[w], n \notin loads'[w]
          PROVE  n <= data[w]
      <4>1. n \in 1 .. latest[w] /\ n \notin loads[w]
        BY <1>1, <1>4, <3>1, SMT DEF Fresh
      <4> QED
        BY <3>1, <4>1 DEF WidgetInv, ShowsYoungest
    <3> QED
      BY <1>2, <3>1 DEF ShowsYoungest
  <2>4. LatestHasParam(w)'
    BY <1>4 DEF LatestHasParam, Fresh
  <2>5. footer'[w] = footer[w] => FooterWaits(w)'
    BY <2>2 DEF WidgetInv, FooterWaits
  <2> QED
    BY <2>1, <2>2, <2>3, <2>4, <2>5
<1>5. CASE Untouched(w) /\ ~(force /\ w \in ws)
  <2>1. Numbered(w)' /\ Spinning(w)' /\ ShowsYoungest(w)'
    BY <1>2, <1>5 DEF WidgetInv, Numbered, Spinning, ShowsYoungest, Untouched
  <2>2. LatestHasParam(w)'
    BY <1>5 DEF WidgetInv, LatestHasParam, Untouched
  <2>3. footer'[w] = footer[w] => FooterWaits(w)'
    BY <1>5 DEF WidgetInv, FooterWaits, Untouched
  <2> QED
    BY <1>5, <2>1, <2>2, <2>3 DEF Untouched
<1> QED
  BY <1>3, <1>4, <1>5

LEMMA AffectedIsShown ==
    ASSUME LoadingTypeOK, NEW b \in BOOLEAN
    PROVE  Affected(b) \subseteq Widgets /\ shownWidgets \cap MappedWidgets \subseteq Affected(b)
BY LoadingAssumption DEF LoadingTypeOK, Affected

-----------------------------------------------------------------------------

(* A load that no refresh and no footer waits for.                         *)
LEMMA QuietLoadKeepsInv ==
    ASSUME LoadingInv, NEW ws, ws \subseteq Widgets, NEW force \in BOOLEAN, Load(ws, force),
           UNCHANGED <<shownWidgets, param, refreshing, awaited, dropped>>,
           footer' \in [Widgets -> 0 .. MaxLoads],
           \A w \in Widgets : footer'[w] = footer[w] \/ (force /\ w \in ws /\ footer'[w] = latest'[w])
    PROVE  LoadingInv'
<1>1. LoadingTypeOK /\ param' \in ParamValues
  BY DEF LoadingInv, LoadingTypeOK
<1>2. LoadingTypeOK'
  <2>1. /\ latest' \in [Widgets -> 0 .. MaxLoads] /\ loading' \in [Widgets -> BOOLEAN]
        /\ loads' \in [Widgets -> SUBSET Loads]
        /\ startedWith' \in [Widgets -> [Loads -> ParamValues]]
        /\ data' = data /\ overtaken' = overtaken
    BY <1>1, LoadKeepsTypes
  <2> QED
    BY <1>1, <2>1 DEF LoadingTypeOK
<1>3. ASSUME NEW w \in Widgets
      PROVE  WidgetInv(w)' /\ loads[w] \subseteq loads'[w]
  <2>1. /\ Numbered(w)' /\ Spinning(w)' /\ ShowsYoungest(w)' /\ LatestHasParam(w)'
        /\ footer'[w] = footer[w] => FooterWaits(w)'
        /\ loads[w] \subseteq loads'[w]
        /\ force /\ w \in ws => latest'[w] \in loads'[w]
    <3>1. WidgetInv(w)
      BY DEF LoadingInv
    <3> QED
      BY <1>1, <3>1, LoadKeepsWidgets
  <2>2. FooterWaits(w)'
    BY <2>1 DEF FooterWaits
  <2> QED
    BY <2>1, <2>2 DEF WidgetInv
<1>4. AwaitedRun'
  <2>1. ASSUME NEW a \in awaited
        PROVE  refreshing' /\ a[2] \in loads'[a[1]]
    <3>1. a[1] \in Widgets
      BY <1>1 DEF LoadingTypeOK
    <3>2. refreshing /\ a[2] \in loads[a[1]]
      BY DEF LoadingInv, AwaitedRun
    <3> QED
      BY <1>3, <3>1, <3>2
  <2> QED
    BY <2>1 DEF AwaitedRun
<1> QED
  BY <1>2, <1>3, <1>4 DEF LoadingInv

(* A refresh waits for the loads it starts.                                *)
LEMMA RefreshKeepsInv ==
    ASSUME LoadingInv, NEW b \in BOOLEAN, Refresh(b), param' \in ParamValues,
           param' = param \/ b = TRUE
    PROVE  LoadingInv'
<1>1. LoadingTypeOK
  BY DEF LoadingInv
<1>2. /\ refreshing' = TRUE /\ Load(Affected(b), TRUE)
      /\ awaited' = {<<w, latest'[w]>> : w \in Affected(b)}
      /\ UNCHANGED <<shownWidgets, footer, dropped>>
  BY DEF Refresh
<1>3. Affected(b) \subseteq Widgets /\ shownWidgets \cap MappedWidgets \subseteq Affected(b)
  BY <1>1, AffectedIsShown
<1>4. ASSUME NEW w \in Widgets
      PROVE  WidgetInv(w)' /\ (w \in Affected(b) => latest'[w] \in loads'[w])
  <2>1. WidgetInv(w)
    BY DEF LoadingInv
  <2>2. /\ Numbered(w)' /\ Spinning(w)' /\ ShowsYoungest(w)' /\ LatestHasParam(w)'
        /\ footer'[w] = footer[w] => FooterWaits(w)'
        /\ w \in Affected(b) => latest'[w] \in loads'[w]
    BY <1>1, <1>2, <1>3, <2>1, LoadKeepsWidgets
  <2> QED
    BY <1>2, <2>2 DEF WidgetInv
<1>5. /\ latest' \in [Widgets -> 0 .. MaxLoads]
      /\ loading' \in [Widgets -> BOOLEAN]
      /\ loads' \in [Widgets -> SUBSET Loads]
      /\ startedWith' \in [Widgets -> [Loads -> ParamValues]]
      /\ data' = data /\ overtaken' = overtaken
  BY <1>1, <1>2, <1>3, LoadKeepsTypes
<1>6. AwaitedRun' /\ awaited' \subseteq Widgets \X Loads
  <2>1. ASSUME NEW a \in awaited'
        PROVE  a \in Widgets \X Loads /\ a[2] \in loads'[a[1]]
    <3>1. PICK w \in Affected(b) : a = <<w, latest'[w]>>
      BY <1>2
    <3>2. w \in Widgets /\ latest'[w] \in loads'[w] /\ loads'[w] \subseteq Loads
      BY <1>3, <1>4, <1>5
    <3> QED
      BY <3>1, <3>2
  <2> QED
    BY <1>2, <2>1 DEF AwaitedRun
<1>7. LoadingTypeOK'
  BY <1>1, <1>2, <1>5, <1>6 DEF LoadingTypeOK
<1> QED
  BY <1>4, <1>6, <1>7 DEF LoadingInv

(* The end of a load takes it from what waits for it.                      *)
LEMMA EndKeepsInv ==
    ASSUME LoadingInv, NEW w \in Widgets, NEW n \in Loads, LoadEnds(w, n)
    PROVE  LoadingInv'
<1>1. LoadingTypeOK /\ WidgetInv(w) /\ MaxLoads \in Nat
  BY LoadingAssumption DEF LoadingInv
<1>2. /\ n \in loads[w]
      /\ loads' = [loads EXCEPT ![w] = @ \ {n}]
      /\ loading' = [loading EXCEPT ![w] = FALSE]
      /\ data' = [data EXCEPT ![w] = n]
      /\ awaited' = awaited \ {<<w, n>>}
      /\ footer' = [footer EXCEPT ![w] = IF @ = n THEN 0 ELSE @]
      /\ overtaken' = IF n < data[w] THEN overtaken \union {w} ELSE overtaken
      /\ UNCHANGED <<shownWidgets, param, latest, startedWith, refreshing, dropped>>
  BY DEF LoadEnds, EndedLoading, StillAwaited
<1>3. LoadingTypeOK'
  <2>1. n \in 0 .. MaxLoads /\ 0 \in 0 .. MaxLoads
    BY <1>1, SMT DEF Loads
  <2>2. /\ loads' \in [Widgets -> SUBSET Loads] /\ data' \in [Widgets -> 0 .. MaxLoads]
        /\ footer' \in [Widgets -> 0 .. MaxLoads]
    BY <1>1, <1>2, <2>1 DEF LoadingTypeOK
  <2>3. loading' \in [Widgets -> BOOLEAN]
    BY <1>1, <1>2 DEF LoadingTypeOK
  <2>4. overtaken' \subseteq Widgets /\ awaited' \subseteq Widgets \X Loads
    BY <1>1, <1>2 DEF LoadingTypeOK
  <2> QED
    BY <1>1, <1>2, <2>2, <2>3, <2>4 DEF LoadingTypeOK
<1>4. ASSUME NEW u \in Widgets
      PROVE  WidgetInv(u)'
  <2>1. WidgetInv(u)
    BY DEF LoadingInv
  <2>2. CASE u # w
    <3>1. /\ loads'[u] = loads[u] /\ loading'[u] = loading[u] /\ data'[u] = data[u]
          /\ footer'[u] = footer[u] /\ (u \in overtaken' <=> u \in overtaken)
      BY <1>1, <1>2, <2>2 DEF LoadingTypeOK
    <3> QED
      BY <1>2, <2>1, <3>1 DEF WidgetInv, Numbered, Spinning, FooterWaits, ShowsYoungest,
                              LatestHasParam
  <2>3. CASE u = w
    <3>1. /\ loads'[w] = loads[w] \ {n} /\ data'[w] = n /\ loading'[w] = FALSE
          /\ footer'[w] = IF footer[w] = n THEN 0 ELSE footer[w]
      BY <1>1, <1>2 DEF LoadingTypeOK
    <3>2. latest[w] \in Nat /\ data[w] \in Nat /\ n \in 1 .. latest[w]
      BY <1>1, <1>2, SMT DEF LoadingTypeOK, WidgetInv, Numbered
    <3>3. Numbered(w)'
      <4>1. loads[w] \ {n} \subseteq 1 .. latest[w] /\ n <= latest[w]
        BY <1>1, <3>2, SMT DEF WidgetInv, Numbered
      <4> QED
        BY <1>2, <3>1, <4>1 DEF Numbered
    <3>4. Spinning(w)'
      BY <3>1 DEF Spinning
    <3>5. FooterWaits(w)'
      BY <1>1, <3>1 DEF WidgetInv, FooterWaits
    <3>6. ShowsYoungest(w)'
      <4>1. ASSUME w \notin overtaken', NEW m \in 1 .. latest[w], m \notin loads'[w]
            PROVE  m <= n
        <5>1. w \notin overtaken /\ ~(n < data[w])
          BY <1>2, <4>1
        <5>2. CASE m = n
          BY <3>2, <5>2, SMT
        <5>3. CASE m # n
          <6>1. m \notin loads[w]
            BY <3>1, <4>1, <5>3
          <6>2. m <= data[w]
            BY <1>1, <5>1, <6>1 DEF WidgetInv, ShowsYoungest
          <6> QED
            BY <3>2, <5>1, <6>2, SMT
        <5> QED
          BY <5>2, <5>3
      <4> QED
        BY <1>2, <3>1, <4>1 DEF ShowsYoungest
    <3>7. LatestHasParam(w)'
      BY <1>1, <1>2 DEF WidgetInv, LatestHasParam
    <3> QED
      BY <2>3, <3>3, <3>4, <3>5, <3>6, <3>7 DEF WidgetInv
  <2> QED
    BY <2>2, <2>3
<1>5. AwaitedRun'
  <2>1. ASSUME NEW a \in awaited'
        PROVE  refreshing /\ a[2] \in loads'[a[1]]
    <3>1. a \in awaited /\ a # <<w, n>>
      BY <1>2
    <3>2. refreshing /\ a[2] \in loads[a[1]]
      BY <3>1 DEF LoadingInv, AwaitedRun
    <3>3. a[1] \in Widgets /\ a = <<a[1], a[2]>>
      BY <1>1, <3>1 DEF LoadingTypeOK
    <3>4. a[1] # w \/ a[2] # n
      BY <3>1, <3>3
    <3>5. loads'[a[1]] = IF a[1] = w THEN loads[w] \ {n} ELSE loads[a[1]]
      BY <1>1, <1>2, <3>3 DEF LoadingTypeOK
    <3> QED
      BY <3>2, <3>4, <3>5
  <2> QED
    BY <1>2, <2>1 DEF AwaitedRun
<1> QED
  BY <1>3, <1>4, <1>5 DEF LoadingInv

-----------------------------------------------------------------------------

LEMMA LoadingInitInv == LoadingInit => LoadingInv
<1> SUFFICES ASSUME LoadingInit PROVE LoadingInv
  OBVIOUS
<1>1. MaxLoads \in Nat /\ 0 \in 0 .. MaxLoads
  BY LoadingAssumption, SMT
<1>2. LoadingTypeOK
  BY <1>1 DEF LoadingInit, LoadingTypeOK
<1>3. ASSUME NEW w \in Widgets
      PROVE  WidgetInv(w)
  <2>1. /\ latest[w] = 0 /\ data[w] = 0 /\ footer[w] = 0 /\ loading[w] = FALSE /\ loads[w] = {}
    BY DEF LoadingInit
  <2> QED
    BY <2>1, SMT DEF WidgetInv, Numbered, Spinning, FooterWaits, ShowsYoungest, LatestHasParam
<1>4. AwaitedRun
  BY DEF LoadingInit, AwaitedRun
<1> QED
  BY <1>2, <1>3, <1>4 DEF LoadingInv

LEMMA LoadingStep == LoadingInv /\ [LoadingNext]_loadingVars => LoadingInv'
<1> SUFFICES ASSUME LoadingInv, [LoadingNext]_loadingVars PROVE LoadingInv'
  OBVIOUS
<1>t. LoadingTypeOK /\ param \in ParamValues /\ footer \in [Widgets -> 0 .. MaxLoads]
  BY DEF LoadingInv, LoadingTypeOK
<1>1. CASE LoadDashboard
  <2>1. /\ UNCHANGED <<shownWidgets, param, refreshing, awaited, footer, dropped>>
        /\ Load(Affected(FALSE), FALSE)
    BY <1>1 DEF LoadDashboard
  <2>2. Affected(FALSE) \subseteq Widgets
    BY <1>t, AffectedIsShown
  <2> QED
    BY <1>t, <2>1, <2>2, QuietLoadKeepsInv
<1>2. CASE RefreshDashboard
  BY <1>2, <1>t, RefreshKeepsInv DEF RefreshDashboard
<1>3. CASE ApplyParameter
  <2>1. PICK v \in ParamValues \ {param} :
           /\ param' = v
           /\ IF refreshing
              THEN /\ dropped' = TRUE
                   /\ UNCHANGED <<shownWidgets, latest, data, loading, loads, startedWith,
                                  refreshing, awaited, footer, overtaken>>
              ELSE Refresh(TRUE)
    BY <1>3 DEF ApplyParameter
  <2>2. CASE refreshing
    <3>1. dropped' = TRUE /\ param' \in ParamValues
      BY <2>1, <2>2
    <3>2. UNCHANGED <<shownWidgets, latest, data, loading, loads, startedWith, refreshing,
                      awaited, footer, overtaken>>
      BY <2>1, <2>2
    <3>3. LoadingTypeOK'
      BY <1>t, <3>1, <3>2 DEF LoadingTypeOK
    <3>4. \A w \in Widgets : WidgetInv(w)'
      BY <3>1, <3>2 DEF LoadingInv, WidgetInv, Numbered, Spinning, FooterWaits, ShowsYoungest,
                        LatestHasParam
    <3> QED
      BY <3>2, <3>3, <3>4 DEF LoadingInv, AwaitedRun
  <2>3. CASE ~refreshing
    BY <2>1, <2>3, RefreshKeepsInv
  <2> QED
    BY <2>2, <2>3
<1>4. CASE RefreshWidget
  <2>1. PICK w \in shownWidgets : Load({w}, TRUE)
    BY <1>4 DEF RefreshWidget
  <2>2. {w} \subseteq Widgets
    BY <1>t DEF LoadingTypeOK
  <2> QED
    BY <1>4, <1>t, <2>1, <2>2, QuietLoadKeepsInv DEF RefreshWidget
<1>5. CASE FooterRefresh
  <2>1. PICK w \in shownWidgets :
           /\ UNCHANGED <<shownWidgets, param, refreshing, awaited, dropped>>
           /\ Load({w}, TRUE)
           /\ footer' = [footer EXCEPT ![w] = latest'[w]]
    BY <1>5 DEF FooterRefresh
  <2>2. w \in Widgets /\ {w} \subseteq Widgets
    BY <1>t DEF LoadingTypeOK
  <2>3. latest'[w] \in 0 .. MaxLoads
    BY <1>t, <2>1, <2>2, LoadKeepsTypes
  <2>4. footer' \in [Widgets -> 0 .. MaxLoads]
    BY <1>t, <2>1, <2>3
  <2>5. \A u \in Widgets : footer'[u] = footer[u] \/ (u \in {w} /\ footer'[u] = latest'[u])
    BY <1>t, <2>1, <2>2
  <2> QED
    BY <2>1, <2>2, <2>4, <2>5, QuietLoadKeepsInv
<1>6. CASE RemoveWidget
  <2>1. PICK w \in shownWidgets : shownWidgets' = shownWidgets \ {w}
    BY <1>6 DEF RemoveWidget
  <2>2. UNCHANGED <<param, latest, data, loading, loads, startedWith, refreshing, awaited, footer,
                    dropped, overtaken>>
    BY <1>6 DEF RemoveWidget
  <2>3. LoadingTypeOK'
    BY <1>t, <2>1, <2>2 DEF LoadingTypeOK
  <2>4. \A u \in Widgets : WidgetInv(u)'
    BY <2>1, <2>2 DEF LoadingInv, WidgetInv, Numbered, Spinning, FooterWaits, ShowsYoungest,
                      LatestHasParam
  <2> QED
    BY <2>2, <2>3, <2>4 DEF LoadingInv, AwaitedRun
<1>7. CASE RefreshEnds
  <2>1. /\ awaited = {} /\ refreshing' = FALSE
        /\ UNCHANGED <<shownWidgets, param, latest, data, loading, loads, startedWith, awaited,
                       footer, dropped, overtaken>>
    BY <1>7 DEF RefreshEnds
  <2>2. LoadingTypeOK' /\ AwaitedRun'
    BY <1>t, <2>1 DEF LoadingTypeOK, AwaitedRun
  <2>3. \A u \in Widgets : WidgetInv(u)'
    BY <2>1 DEF LoadingInv, WidgetInv, Numbered, Spinning, FooterWaits, ShowsYoungest,
                LatestHasParam
  <2> QED
    BY <2>2, <2>3 DEF LoadingInv
<1>8. ASSUME NEW w \in Widgets, NEW n \in Loads, LoadEnds(w, n)
      PROVE  LoadingInv'
  BY <1>8, EndKeepsInv
<1>9. CASE UNCHANGED loadingVars
  BY <1>9 DEF loadingVars, LoadingInv, LoadingTypeOK, AwaitedRun, WidgetInv, Numbered, Spinning,
              FooterWaits, ShowsYoungest, LatestHasParam
<1> QED
  BY <1>1, <1>2, <1>3, <1>4, <1>5, <1>6, <1>7, <1>8, <1>9 DEF LoadingNext

(* No order of loads, refreshes and answers leaves a spinner turning for a *)
(* load that has ended; and a widget without loads, none of them overtaken,*)
(* shows its last load, which was started with the parameter's value.      *)
THEOREM DashboardsSettle ==
  LoadingSpec => []LoadingTypeOK /\ []SpinnersAreBacked /\ []ParameterIsShown
<1>0. LoadingInv => LoadingTypeOK
  BY DEF LoadingInv
<1>1. LoadingInv => SpinnersAreBacked
  BY DEF LoadingInv, WidgetInv, Spinning, FooterWaits, AwaitedRun, SpinnersAreBacked
<1>2. LoadingInv => ParameterIsShown
  <2> SUFFICES ASSUME LoadingInv, ~dropped, NEW w \in (shownWidgets \cap MappedWidgets) \ overtaken,
                      data[w] # 0, loads[w] = {}
               PROVE  startedWith[w][data[w]] = param
    BY DEF ParameterIsShown
  <2>1. w \in Widgets /\ WidgetInv(w) /\ latest[w] \in Nat /\ data[w] \in Nat
    BY LoadingAssumption, SMT DEF LoadingInv, LoadingTypeOK
  <2>2. latest[w] <= data[w]
    BY <2>1, SMT DEF WidgetInv, ShowsYoungest
  <2>3. data[w] = latest[w]
    BY <2>1, <2>2, SMT DEF WidgetInv, Numbered
  <2> QED
    BY <2>1, <2>3 DEF WidgetInv, LatestHasParam
<1> QED
  BY <1>0, <1>1, <1>2, LoadingInitInv, LoadingStep, PTL DEF LoadingSpec

-----------------------------------------------------------------------------
(* Layouts. *)

Unfailed(bs) == \E b \in bs : ~b.failed

LEMMA SavesAreBacked ==
    ASSUME NEW layout, NEW id, SaveLayout(layout, id)
    PROVE  SavingIsBacked'
<1> DEFINE changed == {w \in DOMAIN layout : known[w] # layout[w]}
           batch == [id |-> id, layout |-> layout, sent |-> changed, done |-> {},
                     failed |-> FALSE]
<1>1. /\ batches' = IF changed = {} THEN batches ELSE batches \union {batch}
      /\ layoutStatus' = StatusOfSaved(changed)
  BY DEF SaveLayout, SetStatus
<1>2. CASE changed = {}
  BY <1>1, <1>2 DEF StatusOfSaved, SavingIsBacked
<1>3. CASE changed # {}
  <2>1. batch \in batches' /\ ~batch.failed
    BY <1>1, <1>3
  <2> QED
    BY <2>1 DEF SavingIsBacked
<1> QED
  BY <1>2, <1>3

(* A batch that stays, as it was or with fewer requests, backs what the    *)
(* batch before backed.                                                    *)
LEMMA RestBacks ==
    ASSUME NEW b \in batches, NEW c, Replace(b, c), ~b.failed => ~c.failed, SavingIsBacked,
           layoutStatus' = layoutStatus, timers' = timers
    PROVE  SavingIsBacked'
<1>1. Unfailed(batches) => Unfailed(batches')
  BY DEF Replace, Unfailed
<1> QED
  BY <1>1 DEF SavingIsBacked, Unfailed

LEMMA LayoutStep == SavingIsBacked /\ [LayoutNext]_layoutVars => SavingIsBacked'
<1> SUFFICES ASSUME SavingIsBacked, [LayoutNext]_layoutVars PROVE SavingIsBacked'
  OBVIOUS
<1>1. CASE BreakpointChange \/ StartEditing
  BY <1>1 DEF BreakpointChange, StartEditing, SavingIsBacked
<1>2. CASE DoneEditing
  BY <1>2 DEF DoneEditing, SavingIsBacked
<1>3. ASSUME NEW layout, LayoutChanges(layout)
      PROVE  SavingIsBacked'
  <2>1. CASE EditingShown
    <3>1. timers' = timers \union {[move |-> moves', layout |-> layout]}
      BY <1>3, <2>1 DEF LayoutChanges
    <3> QED
      BY <3>1 DEF SavingIsBacked
  <2>2. CASE ~EditingShown
    BY <1>3, <2>2 DEF LayoutChanges, SavingIsBacked
  <2> QED
    BY <2>1, <2>2
<1>4. CASE MoveWidget \/ RemoveFromGrid
  BY <1>3, <1>4 DEF MoveWidget, RemoveFromGrid
<1>5. CASE TimerEnds \/ Retry
  BY <1>5, SavesAreBacked DEF TimerEnds, Retry
<1>6. CASE StorePosition
  <2>1. PICK b \in batches : \E w \in (b.sent \ b.done) \cap present :
           Replace(b, [b EXCEPT !.done = @ \union {w}])
    BY <1>6 DEF StorePosition
  <2>2. PICK w \in (b.sent \ b.done) \cap present : Replace(b, [b EXCEPT !.done = @ \union {w}])
    BY <2>1
  <2>3. ~b.failed => ~[b EXCEPT !.done = @ \union {w}].failed
    OBVIOUS
  <2>4. layoutStatus' = layoutStatus /\ timers' = timers
    BY <1>6 DEF StorePosition
  <2> QED
    BY <2>2, <2>3, <2>4, RestBacks
<1>7. CASE PositionAnswered
  <2>1. timers' = timers
    BY <1>7 DEF PositionAnswered
  <2>2. PICK b \in batches : \E w \in b.done :
           LET rest == [b EXCEPT !.sent = @ \ {w}, !.done = @ \ {w}] IN
           IF rest.sent = {}
           THEN /\ Finish(b)
                /\ IF b.failed
                   THEN UNCHANGED <<layoutStatus, editingLayout, doneClicked>>
                   ELSE SetStatus("saved")
           ELSE /\ Replace(b, rest)
                /\ UNCHANGED <<layoutStatus, editingLayout, doneClicked>>
    BY <1>7 DEF PositionAnswered
  <2>3. PICK w \in b.done :
           LET after == [b EXCEPT !.sent = @ \ {w}, !.done = @ \ {w}] IN
           IF after.sent = {}
           THEN /\ Finish(b)
                /\ IF b.failed
                   THEN UNCHANGED <<layoutStatus, editingLayout, doneClicked>>
                   ELSE SetStatus("saved")
           ELSE /\ Replace(b, after)
                /\ UNCHANGED <<layoutStatus, editingLayout, doneClicked>>
    BY <2>2
  <2> DEFINE rest == [b EXCEPT !.sent = @ \ {w}, !.done = @ \ {w}]
  <2>4. CASE rest.sent = {} /\ b.failed
    <3>1. batches' = batches \ {b} /\ layoutStatus' = layoutStatus
      BY <2>3, <2>4 DEF Finish
    <3>2. Unfailed(batches) => Unfailed(batches')
      BY <2>4, <3>1 DEF Unfailed
    <3> QED
      BY <2>1, <3>1, <3>2 DEF SavingIsBacked, Unfailed
  <2>5. CASE rest.sent = {} /\ ~b.failed
    <3>1. layoutStatus' = "saved"
      BY <2>3, <2>5 DEF SetStatus
    <3> QED
      BY <3>1 DEF SavingIsBacked
  <2>6. CASE rest.sent # {}
    <3>1. Replace(b, rest) /\ layoutStatus' = layoutStatus
      BY <2>3, <2>6
    <3>2. ~b.failed => ~rest.failed
      OBVIOUS
    <3> QED
      BY <2>1, <3>1, <3>2, RestBacks
  <2> QED
    BY <2>4, <2>5, <2>6
<1>8. CASE PositionFailed
  <2>1. timers' = timers
    BY <1>8 DEF PositionFailed
  <2>2. PICK b \in batches : \E w \in b.sent :
           LET rest == [b EXCEPT !.sent = @ \ {w}, !.done = @ \ {w}, !.failed = TRUE] IN
           /\ IF rest.sent = {} THEN Finish(b) ELSE Replace(b, rest)
           /\ SetStatus(StatusOfFailure(b))
    BY <1>8 DEF PositionFailed
  <2>3. layoutStatus' = StatusOfFailure(b)
    BY <2>2 DEF SetStatus
  <2>4. CASE ~b.failed
    BY <2>3, <2>4 DEF StatusOfFailure, SavingIsBacked
  <2>5. CASE b.failed
    <3>1. batches \ {b} \subseteq batches'
      BY <2>2 DEF Finish, Replace
    <3>2. Unfailed(batches) => Unfailed(batches')
      BY <2>5, <3>1 DEF Unfailed
    <3>3. layoutStatus' = layoutStatus
      BY <2>3, <2>5 DEF StatusOfFailure
    <3> QED
      BY <2>1, <3>2, <3>3 DEF SavingIsBacked, Unfailed
  <2> QED
    BY <2>4, <2>5
<1>9. CASE UNCHANGED layoutVars
  BY <1>9 DEF layoutVars, SavingIsBacked
<1> QED
  BY <1>1, <1>2, <1>4, <1>5, <1>6, <1>7, <1>8, <1>9 DEF LayoutNext

-----------------------------------------------------------------------------
(* The types of layouts, timers and batches: a batch sends positions of its *)
(* layout, and each is stored before it is answered.                        *)

Batch == [id : Nat, layout : Layouts, sent : SUBSET GridWidgets, done : SUBSET GridWidgets,
          failed : BOOLEAN]

LayoutTypes ==
    /\ LayoutTypeOK
    /\ timers \subseteq [move : 1 .. MaxMoves, layout : Layouts]
    /\ batches \subseteq Batch
    /\ \A b \in batches : b.done \subseteq b.sent /\ b.sent \subseteq DOMAIN b.layout

LEMMA LayoutsAreFunctions ==
    ASSUME NEW layout
    PROVE  layout \in Layouts <=> /\ DOMAIN layout \subseteq GridWidgets
                                  /\ layout \in [DOMAIN layout -> Positions]
<1>1. ASSUME layout \in Layouts
      PROVE  DOMAIN layout \subseteq GridWidgets /\ layout \in [DOMAIN layout -> Positions]
  <2>1. PICK ws \in SUBSET GridWidgets : layout \in [ws -> Positions]
    BY <1>1 DEF Layouts
  <2>2. DOMAIN layout = ws
    BY <2>1
  <2> QED
    BY <2>1, <2>2
<1>2. ASSUME DOMAIN layout \subseteq GridWidgets, layout \in [DOMAIN layout -> Positions]
      PROVE  layout \in Layouts
  BY <1>2 DEF Layouts
<1> QED
  BY <1>1, <1>2

(* A new status leaves Booleans.                                            *)
LEMMA StatusTypes ==
    ASSUME LayoutTypes, NEW s \in LayoutStatuses, SetStatus(s)
    PROVE  layoutStatus' \in LayoutStatuses /\ editingLayout' \in BOOLEAN /\ doneClicked' \in BOOLEAN
<1>1. layoutStatus' \in LayoutStatuses
  BY DEF SetStatus
<1>2. editingLayout' \in BOOLEAN /\ doneClicked' \in BOOLEAN
  BY Zenon DEF SetStatus
<1> QED
  BY <1>1, <1>2

LEMMA ChangesKeepTypes ==
    ASSUME LayoutTypes, NEW layout \in Layouts, LayoutChanges(layout)
    PROVE  LayoutTypes'
<1>1. /\ moves' = moves + 1 /\ moves' \in 1 .. MaxMoves /\ grid' = layout
      /\ UNCHANGED <<known, stored, batches, recentPositions, gridDisabled>>
  BY LayoutAssumption DEF LayoutChanges, LayoutTypes, LayoutTypeOK
<1>2. /\ timers' \subseteq [move : 1 .. MaxMoves, layout : Layouts]
      /\ layoutStatus' \in LayoutStatuses /\ editingLayout' \in BOOLEAN /\ doneClicked' \in BOOLEAN
  <2>1. CASE EditingShown
    <3>1. timers' = timers \union {[move |-> moves', layout |-> layout]} /\ SetStatus("saving")
      BY <2>1 DEF LayoutChanges
    <3>2. "saving" \in LayoutStatuses
      BY DEF LayoutStatuses
    <3> QED
      BY <1>1, <3>1, <3>2, StatusTypes DEF LayoutTypes
  <2>2. CASE ~EditingShown
    BY <2>2 DEF LayoutChanges, LayoutTypes, LayoutTypeOK
  <2> QED
    BY <2>1, <2>2
<1> QED
  BY <1>1, <1>2, LayoutAssumption DEF LayoutTypes, LayoutTypeOK

LEMMA SavesKeepTypes ==
    ASSUME LayoutTypes, NEW layout \in Layouts, NEW id \in Nat, SaveLayout(layout, id),
           timers' \subseteq timers, UNCHANGED <<grid, known, stored, moves, gridDisabled>>
    PROVE  LayoutTypes'
<1> DEFINE changed == {w \in DOMAIN layout : known[w] # layout[w]}
           batch == [id |-> id, layout |-> layout, sent |-> changed, done |-> {},
                     failed |-> FALSE]
<1>1. /\ recentPositions' = layout
      /\ batches' = IF changed = {} THEN batches ELSE batches \union {batch}
      /\ SetStatus(StatusOfSaved(changed))
  BY DEF SaveLayout
<1>2. changed \subseteq GridWidgets
  BY LayoutsAreFunctions
<1>3. batch \in Batch /\ batch.done \subseteq batch.sent /\ batch.sent \subseteq DOMAIN batch.layout
  BY <1>2 DEF Batch
<1>4. \A b \in batches' : b \in batches \/ b = batch
  BY <1>1
<1> HIDE DEF batch
<1>5. /\ batches' \subseteq Batch
      /\ \A b \in batches' : b.done \subseteq b.sent /\ b.sent \subseteq DOMAIN b.layout
  BY <1>3, <1>4 DEF LayoutTypes
<1>6. StatusOfSaved(changed) \in LayoutStatuses
  BY DEF StatusOfSaved, LayoutStatuses
<1>7. /\ layoutStatus' \in LayoutStatuses /\ editingLayout' \in BOOLEAN /\ doneClicked' \in BOOLEAN
  BY <1>1, <1>6, StatusTypes
<1> QED
  BY <1>1, <1>5, <1>7 DEF LayoutTypes, LayoutTypeOK, Batch

(* A batch with fewer requests under way, or with more of them stored.      *)
LEMMA RestKeepsTypes ==
    ASSUME LayoutTypes, NEW b \in batches, NEW c \in Batch, Finish(b) \/ Replace(b, c),
           c.done \subseteq c.sent, c.sent \subseteq DOMAIN c.layout,
           known' \in [GridWidgets -> Positions], stored' \in [GridWidgets -> Positions],
           layoutStatus' \in LayoutStatuses, editingLayout' \in BOOLEAN, doneClicked' \in BOOLEAN,
           UNCHANGED <<grid, moves, timers, recentPositions, gridDisabled>>
    PROVE  LayoutTypes'
<1>1. \A d \in batches' : d \in batches \/ d = c
  BY DEF Finish, Replace
<1>2. /\ batches' \subseteq Batch
      /\ \A d \in batches' : d.done \subseteq d.sent /\ d.sent \subseteq DOMAIN d.layout
  BY <1>1 DEF LayoutTypes
<1> QED
  BY <1>2 DEF LayoutTypes, LayoutTypeOK, Batch

(* What is left of a batch when one of its requests has ended.              *)
LEMMA RestOfBatch ==
    ASSUME LayoutTypes, NEW b \in batches, NEW w, NEW f \in BOOLEAN,
           NEW c, c = [b EXCEPT !.sent = @ \ {w}, !.done = @ \ {w}, !.failed = f]
    PROVE  c \in Batch /\ c.done \subseteq c.sent /\ c.sent \subseteq DOMAIN c.layout
<1>1. b \in Batch /\ b.done \subseteq b.sent /\ b.sent \subseteq DOMAIN b.layout
  BY DEF LayoutTypes
<1>2. c = [id |-> b.id, layout |-> b.layout, sent |-> b.sent \ {w}, done |-> b.done \ {w},
           failed |-> f]
  BY <1>1 DEF Batch
<1> QED
  BY <1>1, <1>2 DEF Batch

LEMMA LayoutTypesStep == LayoutTypes /\ [LayoutNext]_layoutVars => LayoutTypes'
<1> SUFFICES ASSUME LayoutTypes, [LayoutNext]_layoutVars PROVE LayoutTypes'
  OBVIOUS
<1>1. CASE BreakpointChange \/ StartEditing
  BY <1>1 DEF BreakpointChange, StartEditing, LayoutTypes, LayoutTypeOK
<1>2. CASE DoneEditing
  BY <1>2 DEF DoneEditing, LayoutTypes, LayoutTypeOK
<1>3. CASE MoveWidget
  <2>1. PICK w \in present, p \in Positions : LayoutChanges([grid EXCEPT ![w] = p])
    BY <1>3 DEF MoveWidget
  <2>2. DOMAIN grid \subseteq GridWidgets /\ grid \in [DOMAIN grid -> Positions]
    BY LayoutsAreFunctions DEF LayoutTypes, LayoutTypeOK
  <2>3. [grid EXCEPT ![w] = p] \in [DOMAIN grid -> Positions]
    BY <2>2
  <2>4. [grid EXCEPT ![w] = p] \in Layouts
    BY <2>2, <2>3 DEF Layouts
  <2> QED
    BY <2>1, <2>4, ChangesKeepTypes
<1>4. CASE RemoveFromGrid
  <2>1. PICK w \in present : LayoutChanges([v \in present \ {w} |-> grid[v]])
    BY <1>4 DEF RemoveFromGrid
  <2>2. DOMAIN grid \subseteq GridWidgets /\ grid \in [DOMAIN grid -> Positions]
    BY LayoutsAreFunctions DEF LayoutTypes, LayoutTypeOK
  <2>3. [v \in present \ {w} |-> grid[v]] \in [present \ {w} -> Positions]
    BY <2>2 DEF present
  <2>4. [v \in present \ {w} |-> grid[v]] \in Layouts
    BY <2>2, <2>3 DEF Layouts, present
  <2> QED
    BY <2>1, <2>4, ChangesKeepTypes
<1>5. CASE TimerEnds
  <2>1. PICK t \in timers : /\ timers' = timers \ {t} /\ SaveLayout(t.layout, t.move)
                            /\ UNCHANGED <<grid, known, stored, moves, gridDisabled>>
    BY <1>5 DEF TimerEnds
  <2>2. t.layout \in Layouts /\ t.move \in Nat
    BY LayoutAssumption DEF LayoutTypes
  <2> QED
    BY <2>1, <2>2, SavesKeepTypes
<1>6. CASE Retry
  <2>1. recentPositions \in Layouts
    BY DEF LayoutTypes, LayoutTypeOK
  <2> QED
    BY <1>6, <2>1, SavesKeepTypes DEF Retry
<1>7. CASE StorePosition
  <2>1. PICK b \in batches : \E w \in (b.sent \ b.done) \cap present :
           /\ stored' = [stored EXCEPT ![w] = b.layout[w]]
           /\ Replace(b, [b EXCEPT !.done = @ \union {w}])
    BY <1>7 DEF StorePosition
  <2>2. PICK w \in (b.sent \ b.done) \cap present :
           /\ stored' = [stored EXCEPT ![w] = b.layout[w]]
           /\ Replace(b, [b EXCEPT !.done = @ \union {w}])
    BY <2>1
  <2> DEFINE c == [b EXCEPT !.done = @ \union {w}]
  <2>3. b \in Batch /\ b.done \subseteq b.sent /\ b.sent \subseteq DOMAIN b.layout
    BY DEF LayoutTypes
  <2>4. c = [id |-> b.id, layout |-> b.layout, sent |-> b.sent, done |-> b.done \union {w},
             failed |-> b.failed]
    BY <2>3 DEF Batch
  <2>5. c \in Batch /\ c.done \subseteq c.sent /\ c.sent \subseteq DOMAIN c.layout
    BY <2>2, <2>3, <2>4 DEF Batch
  <2>6. b.layout[w] \in Positions
    BY <2>2, <2>3, LayoutsAreFunctions DEF Batch
  <2>7. /\ known' \in [GridWidgets -> Positions] /\ stored' \in [GridWidgets -> Positions]
        /\ layoutStatus' \in LayoutStatuses /\ editingLayout' \in BOOLEAN /\ doneClicked' \in BOOLEAN
        /\ UNCHANGED <<grid, moves, timers, recentPositions, gridDisabled>>
    BY <1>7, <2>2, <2>6 DEF StorePosition, LayoutTypes, LayoutTypeOK
  <2> HIDE DEF c
  <2>8. Replace(b, c)
    BY <2>2 DEF c
  <2> QED
    BY <2>5, <2>7, <2>8, RestKeepsTypes
<1>8. CASE PositionAnswered
  <2>1. PICK b \in batches : \E w \in b.done :
           LET rest == [b EXCEPT !.sent = @ \ {w}, !.done = @ \ {w}] IN
           /\ known' = [known EXCEPT ![w] = b.layout[w]]
           /\ IF rest.sent = {}
              THEN /\ Finish(b)
                   /\ IF b.failed
                      THEN UNCHANGED <<layoutStatus, editingLayout, doneClicked>>
                      ELSE SetStatus("saved")
              ELSE /\ Replace(b, rest)
                   /\ UNCHANGED <<layoutStatus, editingLayout, doneClicked>>
    BY <1>8 DEF PositionAnswered
  <2>2. PICK w \in b.done :
           LET after == [b EXCEPT !.sent = @ \ {w}, !.done = @ \ {w}] IN
           /\ known' = [known EXCEPT ![w] = b.layout[w]]
           /\ IF after.sent = {}
              THEN /\ Finish(b)
                   /\ IF b.failed
                      THEN UNCHANGED <<layoutStatus, editingLayout, doneClicked>>
                      ELSE SetStatus("saved")
              ELSE /\ Replace(b, after)
                   /\ UNCHANGED <<layoutStatus, editingLayout, doneClicked>>
    BY <2>1
  <2> DEFINE rest == [b EXCEPT !.sent = @ \ {w}, !.done = @ \ {w}]
  <2>3. b \in Batch /\ b.done \subseteq b.sent /\ b.sent \subseteq DOMAIN b.layout
    BY DEF LayoutTypes
  <2>4. rest = [b EXCEPT !.sent = @ \ {w}, !.done = @ \ {w}, !.failed = b.failed]
    BY <2>3 DEF Batch
  <2>5. rest \in Batch /\ rest.done \subseteq rest.sent /\ rest.sent \subseteq DOMAIN rest.layout
    BY <2>3, <2>4, RestOfBatch DEF Batch
  <2>6. b.layout[w] \in Positions /\ w \in GridWidgets
    BY <2>3, LayoutsAreFunctions DEF Batch
  <2>7. /\ known' \in [GridWidgets -> Positions] /\ stored' \in [GridWidgets -> Positions]
        /\ UNCHANGED <<grid, moves, timers, recentPositions, gridDisabled>>
    BY <1>8, <2>2, <2>6 DEF PositionAnswered, LayoutTypes, LayoutTypeOK
  <2>8. /\ Finish(b) \/ Replace(b, rest)
        /\ UNCHANGED <<layoutStatus, editingLayout, doneClicked>> \/ SetStatus("saved")
    BY <2>2
  <2>9. "saved" \in LayoutStatuses
    BY DEF LayoutStatuses
  <2>10. /\ layoutStatus' \in LayoutStatuses /\ editingLayout' \in BOOLEAN /\ doneClicked' \in BOOLEAN
    BY <2>8, <2>9, StatusTypes DEF LayoutTypes, LayoutTypeOK
  <2> HIDE DEF rest
  <2> QED
    BY <2>5, <2>7, <2>8, <2>10, RestKeepsTypes
<1>9. CASE PositionFailed
  <2>1. PICK b \in batches : \E w \in b.sent :
           LET rest == [b EXCEPT !.sent = @ \ {w}, !.done = @ \ {w}, !.failed = TRUE] IN
           /\ IF rest.sent = {} THEN Finish(b) ELSE Replace(b, rest)
           /\ SetStatus(StatusOfFailure(b))
    BY <1>9 DEF PositionFailed
  <2>2. PICK w \in b.sent :
           LET after == [b EXCEPT !.sent = @ \ {w}, !.done = @ \ {w}, !.failed = TRUE] IN
           /\ IF after.sent = {} THEN Finish(b) ELSE Replace(b, after)
           /\ SetStatus(StatusOfFailure(b))
    BY <2>1
  <2> DEFINE rest == [b EXCEPT !.sent = @ \ {w}, !.done = @ \ {w}, !.failed = TRUE]
  <2>3. rest \in Batch /\ rest.done \subseteq rest.sent /\ rest.sent \subseteq DOMAIN rest.layout
    BY RestOfBatch
  <2>4. Finish(b) \/ Replace(b, rest)
    BY <2>2
  <2>5. StatusOfFailure(b) \in LayoutStatuses
    BY DEF StatusOfFailure, LayoutTypes, LayoutTypeOK, LayoutStatuses
  <2>6. /\ layoutStatus' \in LayoutStatuses /\ editingLayout' \in BOOLEAN /\ doneClicked' \in BOOLEAN
    BY <2>2, <2>5, StatusTypes
  <2>7. /\ known' \in [GridWidgets -> Positions] /\ stored' \in [GridWidgets -> Positions]
        /\ UNCHANGED <<grid, moves, timers, recentPositions, gridDisabled>>
    BY <1>9 DEF PositionFailed, LayoutTypes, LayoutTypeOK
  <2> HIDE DEF rest
  <2> QED
    BY <2>3, <2>4, <2>6, <2>7, RestKeepsTypes
<1>10. CASE UNCHANGED layoutVars
  BY <1>10 DEF layoutVars, LayoutTypes, LayoutTypeOK
<1> QED
  BY <1>1, <1>2, <1>3, <1>4, <1>5, <1>6, <1>7, <1>8, <1>9, <1>10 DEF LayoutNext

(* Whatever batches overlap, fail and are retried, the page does not say   *)
(* that it saves without a timer or a request that will end that; what it  *)
(* has, sends and stores is a position for each of some widgets.           *)
THEOREM SavingEndsSomehow == LayoutSpec => []LayoutTypeOK /\ []SavingIsBacked
<1>1. LayoutInit => SavingIsBacked
  BY DEF LayoutInit, SavingIsBacked
<1>2. LayoutInit => LayoutTypes
  <2> SUFFICES ASSUME LayoutInit PROVE LayoutTypes
    OBVIOUS
  <2>1. /\ grid \in [GridWidgets -> Positions] /\ known = grid /\ stored = grid
        /\ recentPositions = grid
    BY DEF LayoutInit
  <2>2. grid \in Layouts
    BY <2>1 DEF Layouts
  <2>3. moves \in 0 .. MaxMoves /\ timers = {} /\ batches = {}
    BY LayoutAssumption DEF LayoutInit
  <2>4. /\ layoutStatus \in LayoutStatuses /\ editingLayout \in BOOLEAN
        /\ gridDisabled \in BOOLEAN /\ doneClicked \in BOOLEAN
    BY DEF LayoutInit, LayoutStatuses
  <2> QED
    BY <2>1, <2>2, <2>3, <2>4 DEF LayoutTypes, LayoutTypeOK
<1>3. LayoutTypes => LayoutTypeOK
  BY DEF LayoutTypes
<1> QED
  BY <1>1, <1>2, <1>3, LayoutStep, LayoutTypesStep, PTL DEF LayoutSpec

-----------------------------------------------------------------------------
(* Heights. *)

HeightsInv == HeightsTypeOK /\ HeightsAreWatched

LEMMA UpdateKeepsTimer ==
    ASSUME HeightsInv, NEW ws, Update(ws), UNCHANGED resizing,
           onPage' \subseteq HeightWidgets, auto' \subseteq HeightWidgets
    PROVE  HeightsInv'
<1> DEFINE added == {w \in HeightWidgets : MustAdd(ws, w)}
           after == [w \in HeightWidgets |->
                        IF w \in added THEN "watched"
                        ELSE IF watched[w] # "absent" /\ w \notin ws THEN "removed" ELSE watched[w]]
           removed == {w \in HeightWidgets : watched[w] = "watched" /\ after[w] = "removed"}
<1>1. /\ watched' = after
      /\ ticking' = /\ ticking \/ (added # {} /\ ~SomeWatched(watched))
                    /\ removed = {} \/ SomeWatched(after)
  BY DEF Update
<1>2. watched' \in [HeightWidgets -> {"absent", "watched", "removed"}]
  BY <1>1 DEF HeightsInv, HeightsTypeOK
<1>3. ticking' \in BOOLEAN /\ (ticking' <=> /\ ticking \/ (added # {} /\ ~SomeWatched(watched))
                                            /\ removed = {} \/ SomeWatched(after))
  BY <1>1, Zenon
<1>4. ASSUME ticking'
      PROVE  SomeWatched(after)
  <2>1. CASE removed # {}
    BY <1>3, <1>4, <2>1
  <2>2. CASE removed = {} /\ ticking
    <3>1. PICK w \in HeightWidgets : watched[w] = "watched"
      BY <2>2 DEF HeightsInv, HeightsAreWatched, SomeWatched
    <3>2. after[w] = "watched"
      BY <2>2, <3>1
    <3> QED
      BY <3>2 DEF SomeWatched
  <2>3. CASE added # {}
    <3>1. PICK w \in HeightWidgets : w \in added
      BY <2>3
    <3>2. after[w] = "watched"
      BY <3>1
    <3> QED
      BY <3>2 DEF SomeWatched
  <2> QED
    BY <1>3, <1>4, <2>1, <2>2, <2>3
<1>5. ASSUME SomeWatched(after), resizing = {}
      PROVE  ticking'
  <2>1. CASE SomeWatched(watched)
    BY <1>3, <1>5, <2>1 DEF HeightsInv, HeightsAreWatched
  <2>2. CASE ~SomeWatched(watched)
    <3>1. PICK w \in HeightWidgets : after[w] = "watched"
      BY <1>5 DEF SomeWatched
    <3>2. w \in added
      BY <2>2, <3>1 DEF SomeWatched
    <3> QED
      BY <1>3, <1>5, <2>2, <3>2
  <2> QED
    BY <2>1, <2>2
<1> QED
  BY <1>1, <1>2, <1>3, <1>4, <1>5 DEF HeightsInv, HeightsTypeOK, HeightsAreWatched

LEMMA HeightsStep == HeightsInv /\ [HeightsNext]_heightVars => HeightsInv'
<1> SUFFICES ASSUME HeightsInv, [HeightsNext]_heightVars PROVE HeightsInv'
  OBVIOUS
<1>1. CASE PageChanges
  BY <1>1, UpdateKeepsTimer DEF PageChanges
<1>2. CASE ResizeStarts
  <2>1. ticking' = FALSE /\ watched' = watched
    BY <1>2 DEF ResizeStarts
  <2>2. resizing' # {}
    BY <1>2 DEF ResizeStarts
  <2> QED
    BY <1>2, <2>1, <2>2 DEF ResizeStarts, HeightsInv, HeightsTypeOK, HeightsAreWatched
<1>3. CASE ResizeEnds
  <2>1. PICK w \in resizing, changed \in BOOLEAN :
           /\ watched' = IF changed /\ watched[w] = "watched"
                         THEN [watched EXCEPT ![w] = "removed"] ELSE watched
           /\ ticking' = (StopIfEmpty(watched') \/ SomeWatched(watched'))
    BY <1>3 DEF ResizeEnds
  <2>2. watched' \in [HeightWidgets -> {"absent", "watched", "removed"}]
    BY <2>1 DEF HeightsInv, HeightsTypeOK
  <2>3. ticking' \in BOOLEAN /\ (ticking' <=> SomeWatched(watched'))
    BY <2>1, Zenon DEF StopIfEmpty
  <2>4. resizing' = {} /\ UNCHANGED <<onPage, auto>>
    BY <1>3 DEF ResizeEnds
  <2> QED
    BY <2>2, <2>3, <2>4 DEF HeightsInv, HeightsTypeOK, HeightsAreWatched
<1>4. CASE UNCHANGED heightVars
  BY <1>4 DEF heightVars, HeightsInv, HeightsTypeOK, HeightsAreWatched
<1> QED
  BY <1>1, <1>2, <1>3, <1>4 DEF HeightsNext

(* No order of updates and resizes leaves the timer off while there is a   *)
(* widget to measure, nor on when there is none.                           *)
THEOREM HeightsStayWatched == HeightsSpec => []HeightsTypeOK /\ []HeightsAreWatched
<1>1. HeightsInit => HeightsInv
  <2> SUFFICES ASSUME HeightsInit PROVE HeightsInv
    OBVIOUS
  <2>1. watched \in [HeightWidgets -> {"absent", "watched", "removed"}]
    BY DEF HeightsInit
  <2>2. ticking \in BOOLEAN /\ (ticking <=> SomeWatched(watched))
    BY Zenon DEF HeightsInit, SomeWatched
  <2>3. onPage \subseteq HeightWidgets /\ auto \subseteq HeightWidgets /\ resizing = {}
    BY DEF HeightsInit
  <2> QED
    BY <2>1, <2>2, <2>3 DEF HeightsInv, HeightsTypeOK, HeightsAreWatched
<1>2. HeightsInv => HeightsTypeOK /\ HeightsAreWatched
  BY DEF HeightsInv
<1> QED
  BY <1>1, <1>2, HeightsStep, PTL DEF HeightsSpec

-----------------------------------------------------------------------------
(* Data screens.                                                            *)

(* Nothing happens to the charts before they are shown.                     *)
Screens == [charts : Seq(Charts), settings : Seq(Ids)]

ScreenTypes ==
    /\ ScreenTypeOK
    /\ drawer \in [chart : Charts \union {NoChart}, setting : Ids, open : BOOLEAN]
    /\ IsFiniteSet(saves)
    /\ \A s \in saves \union {storedScreen} : s \in Screens /\ Len(s.charts) <= MaxCharts
    /\ loadPhase # "shown" => active = 0 /\ opening = {} /\ ~drawer.open

(* A screen that loads is the one that was stored.                          *)
LoadsTheStored ==
    ~raced /\ loadPhase # "shown" =>
        /\ charts = <<>> /\ saves = {} /\ Len(storedScreen.charts) <= 1
        /\ loadPhase = "querying" => settings = storedScreen.settings

(* Every setting has a chart of its own: two settings with the same id have *)
(* two charts with it, so that one goes with the other.                     *)
FittedBy(f, ss, cs) ==
    /\ f \in [DOMAIN ss -> DOMAIN cs]
    /\ \A i, j \in DOMAIN ss : f[i] = f[j] => i = j
    /\ \A i \in DOMAIN ss : cs[f[i]].id = ss[i]

Fits(ss, cs) == \E f \in [DOMAIN ss -> DOMAIN cs] : FittedBy(f, ss, cs)

SettingsFit ==
    ~raced => /\ loadPhase = "shown" => Fits(settings, charts)
              /\ \A s \in saves \union {storedScreen} : Fits(s.settings, s.charts)

(* The z-indexes are at most the number of charts, and less by one while a  *)
(* chart is active: there is room for its deletion.                         *)
Under(cs, n) == \A i \in DOMAIN cs : cs[i].z <= n

Lower ==
    ~raced => /\ Under(charts, IF active = 0 THEN Len(charts) ELSE Len(charts) - 1)
              /\ \A s \in saves \union {storedScreen} : Under(s.charts, Len(s.charts))

ScreenInv == ScreenTypes /\ LoadsTheStored /\ SettingsFit /\ Lower

-----------------------------------------------------------------------------
(* Lemmas about sequences of charts and settings *)

(* A set of naturals has a least element.                                   *)
LEMMA LeastOfSet ==
    ASSUME NEW S \in SUBSET Nat, S # {}
    PROVE  \E n \in S : \A m \in S : n <= m
<1> DEFINE less == {p \in Nat \X Nat : p[1] < p[2]}
<1>1. IsWellFoundedOn(less, Nat)
    BY NatLessThanWellFounded, Zenon DEF OpToRel
<1>2. PICK n \in S : \A m \in S : ~ (<<m, n>> \in less)
    <2> HIDE DEF less
    <2> QED
        BY <1>1, WFMin
<1>3. \A m \in S : ~ (m < n)
    BY <1>2
<1> QED
    BY <1>2, <1>3

LEMMA FirstWithId ==
    ASSUME NEW ss \in Seq(Ids), NEW id \in SettingsOf(ss)
    PROVE  LET found == FirstWith(ss, LAMBDA s : s = id) IN
           /\ found # {}
           /\ \A i \in found : i \in DOMAIN ss /\ ss[i] = id
<1>1. \E i \in DOMAIN ss : ss[i] = id
    BY DEF SettingsOf
<1> DEFINE places == {i \in DOMAIN ss : ss[i] = id}
<1>2. places \in SUBSET Nat /\ places # {}
    BY <1>1
<1>3. PICK i \in places : \A j \in places : i <= j
    BY <1>2, LeastOfSet
<1>4. \A j \in 1 .. i - 1 : j \in DOMAIN ss /\ ss[j] # id
    BY <1>3
<1> QED
    BY <1>3, <1>4 DEF FirstWith

LEMMA FirstWithChart ==
    ASSUME NEW cs \in Seq(Charts), NEW id, \E i \in DOMAIN cs : cs[i].id = id
    PROVE  LET found == FirstWith(cs, LAMBDA d : d.id = id) IN
           /\ found # {}
           /\ \A i \in found : i \in DOMAIN cs /\ cs[i].id = id
<1> DEFINE places == {i \in DOMAIN cs : cs[i].id = id}
<1>2. places \in SUBSET Nat /\ places # {}
    OBVIOUS
<1>3. PICK i \in places : \A j \in places : i <= j
    BY <1>2, LeastOfSet
<1>4. \A j \in 1 .. i - 1 : j \in DOMAIN cs /\ cs[j].id # id
    BY <1>3
<1> QED
    BY <1>3, <1>4 DEF FirstWith

(* What is left of a sequence without one of its elements.                  *)
After(i, j) == IF j < i THEN j ELSE j + 1

LEMMA WithoutOne ==
    ASSUME NEW S, NEW s \in Seq(S), NEW i \in DOMAIN s
    PROVE  /\ Without(s, i) \in Seq(S)
           /\ Len(Without(s, i)) = Len(s) - 1
           /\ \A j \in 1 .. Len(s) - 1 : After(i, j) \in DOMAIN s /\ Without(s, i)[j] = s[After(i, j)]
<1>1. Len(s) \in Nat /\ Len(s) # 0 /\ DOMAIN s = 1 .. Len(s)
    OBVIOUS
<1>2. \A j \in 1 .. Len(s) - 1 : s[After(i, j)] \in S /\ After(i, j) \in DOMAIN s
    BY <1>1 DEF After
<1>3. \A j \in 1 .. Len(s) - 1 : Without(s, i)[j] = s[After(i, j)]
    BY <1>1 DEF After, Without
<1>4. Without(s, i) \in [1 .. Len(s) - 1 -> S]
    BY <1>2 DEF After, Without
<1>5. Len(s) - 1 \in Nat
    BY <1>1
<1> QED
    BY <1>2, <1>3, <1>4, <1>5

(* The charts may be moved to another array that keeps their ids.           *)
LEMMA FitsMore ==
    ASSUME NEW ss \in Seq(Ids), NEW cs \in Seq(Charts), NEW ds \in Seq(Charts), Fits(ss, cs),
           DOMAIN cs \subseteq DOMAIN ds, \A i \in DOMAIN cs : ds[i].id = cs[i].id
    PROVE  Fits(ss, ds)
<1>1. PICK f \in [DOMAIN ss -> DOMAIN cs] : FittedBy(f, ss, cs)
    BY DEF Fits
<1>2. f \in [DOMAIN ss -> DOMAIN ds] /\ FittedBy(f, ss, ds)
    BY <1>1 DEF FittedBy
<1> QED
    BY <1>2 DEF Fits

(* A setting is added with its chart, or to a chart without one.            *)
LEMMA FitsOneMore ==
    ASSUME NEW ss \in Seq(Ids), NEW id \in Ids, NEW cs \in Seq(Charts), NEW ds \in Seq(Charts), Fits(ss, cs),
           DOMAIN cs \subseteq DOMAIN ds, \A i \in DOMAIN cs : ds[i].id = cs[i].id,
           NEW k \in DOMAIN ds, ds[k].id = id, k \notin DOMAIN cs \/ id \notin SettingsOf(ss)
    PROVE  Fits(Append(ss, id), ds)
<1>1. PICK f \in [DOMAIN ss -> DOMAIN cs] : FittedBy(f, ss, cs)
    BY DEF Fits
<1> DEFINE more == Append(ss, id)
           g == [i \in DOMAIN more |-> IF i \in DOMAIN ss THEN f[i] ELSE k]
<1>2. DOMAIN more = 1 .. Len(ss) + 1 /\ DOMAIN ss = 1 .. Len(ss) /\ Len(ss) \in Nat
    OBVIOUS
<1>3. (\A i \in DOMAIN ss : more[i] = ss[i]) /\ more[Len(ss) + 1] = id
    OBVIOUS
<1>4. \A i \in DOMAIN more : i \notin DOMAIN ss => i = Len(ss) + 1
    BY <1>2
<1>5. \A i \in DOMAIN ss : f[i] \in DOMAIN cs /\ cs[f[i]].id = ss[i]
    BY <1>1 DEF FittedBy
<1>6. \A i \in DOMAIN ss : f[i] # k
    BY <1>5 DEF SettingsOf
<1> HIDE DEF more
<1>7. g \in [DOMAIN more -> DOMAIN ds]
    BY <1>5
<1>8. \A i, j \in DOMAIN more : g[i] = g[j] => i = j
    <2> SUFFICES ASSUME NEW i \in DOMAIN more, NEW j \in DOMAIN more, g[i] = g[j]
                 PROVE  i = j
        OBVIOUS
    <2>1. CASE i \in DOMAIN ss /\ j \in DOMAIN ss
        BY <2>1, <1>1 DEF FittedBy
    <2>2. CASE i \notin DOMAIN ss /\ j \notin DOMAIN ss
        BY <2>2, <1>4
    <2>3. CASE ~ (i \in DOMAIN ss <=> j \in DOMAIN ss)
        BY <2>3, <1>6
    <2> QED
        BY <2>1, <2>2, <2>3
<1>9. \A i \in DOMAIN more : ds[g[i]].id = more[i]
    BY <1>3, <1>4, <1>5
<1> HIDE DEF g
<1>10. FittedBy(g, more, ds)
    BY <1>7, <1>8, <1>9 DEF FittedBy
<1> QED
    BY <1>7, <1>10 DEF Fits, more

(* A chart goes with a setting that has its id, if there is one: the other  *)
(* chart of that setting, if the two were not each other's, takes its place.*)
LEMMA FitsOneLess ==
    ASSUME NEW ss \in Seq(Ids), NEW cs \in Seq(Charts), Fits(ss, cs), NEW k \in DOMAIN cs
    PROVE  /\ WithoutSetting(ss, cs[k].id) \in Seq(Ids)
           /\ Fits(WithoutSetting(ss, cs[k].id), Without(cs, k))
<1> DEFINE id == cs[k].id
           less == Without(cs, k)
           Down(n) == IF n < k THEN n ELSE n - 1
<1>1. PICK f \in [DOMAIN ss -> DOMAIN cs] : FittedBy(f, ss, cs)
    BY DEF Fits
<1>2. \A i \in DOMAIN ss : f[i] \in DOMAIN cs /\ cs[f[i]].id = ss[i]
    BY <1>1 DEF FittedBy
<1>3. /\ less \in Seq(Charts) /\ Len(less) = Len(cs) - 1 /\ Len(cs) \in Nat
      /\ DOMAIN less = 1 .. Len(cs) - 1 /\ DOMAIN cs = 1 .. Len(cs)
      /\ \A j \in 1 .. Len(cs) - 1 : less[j] = cs[After(k, j)]
    BY WithoutOne
<1>4. \A n \in DOMAIN cs \ {k} : Down(n) \in DOMAIN less /\ less[Down(n)] = cs[n]
    <2> HIDE DEF less
    <2>1. \A n \in DOMAIN cs \ {k} : Down(n) \in 1 .. Len(cs) - 1 /\ After(k, Down(n)) = n
        BY <1>3 DEF After
    <2> QED
        BY <1>3, <2>1
<1>5. \A m, n \in DOMAIN cs \ {k} : Down(m) = Down(n) => m = n
    BY <1>3
<1> HIDE DEF less
<1>6. CASE id \notin SettingsOf(ss)
    <2> DEFINE g == [i \in DOMAIN ss |-> Down(f[i])]
    <2>1. \A i \in DOMAIN ss : f[i] \in DOMAIN cs \ {k}
        BY <1>2, <1>6 DEF SettingsOf
    <2> HIDE DEF Down
    <2>2. g \in [DOMAIN ss -> DOMAIN less]
        BY <2>1, <1>4
    <2>3. \A i, j \in DOMAIN ss : g[i] = g[j] => i = j
        BY <2>1, <1>5, <1>1 DEF FittedBy
    <2>4. \A i \in DOMAIN ss : less[g[i]].id = ss[i]
        BY <2>1, <1>2, <1>4
    <2> HIDE DEF g
    <2>5. FittedBy(g, ss, less)
        BY <2>2, <2>3, <2>4 DEF FittedBy
    <2>6. WithoutSetting(ss, id) = ss
        BY <1>6 DEF WithoutSetting
    <2> QED
        BY <2>2, <2>5, <2>6 DEF Fits, less
<1>7. CASE id \in SettingsOf(ss)
    <2> DEFINE m == CHOOSE i \in FirstWith(ss, LAMBDA s : s = id) : TRUE
               rest == Without(ss, m)
               Other(i) == IF f[i] = k THEN f[m] ELSE f[i]
               g == [j \in DOMAIN rest |-> Down(Other(After(m, j)))]
    <2>1. m \in DOMAIN ss /\ ss[m] = id
        BY <1>7, FirstWithId
    <2>2. WithoutSetting(ss, id) = rest
        BY <1>7 DEF WithoutSetting
    <2> HIDE DEF m
    <2>3. /\ rest \in Seq(Ids) /\ Len(ss) \in Nat
          /\ DOMAIN rest = 1 .. Len(ss) - 1 /\ DOMAIN ss = 1 .. Len(ss)
          /\ \A j \in 1 .. Len(ss) - 1 : After(m, j) \in DOMAIN ss /\ rest[j] = ss[After(m, j)]
        BY <2>1, WithoutOne
    <2> HIDE DEF rest
    <2>4. \A j \in DOMAIN rest : After(m, j) \in DOMAIN ss \ {m} /\ rest[j] = ss[After(m, j)]
        BY <2>1, <2>3 DEF After
    <2>5. \A i, j \in DOMAIN rest : After(m, i) = After(m, j) => i = j
        BY <2>1, <2>3 DEF After
    <2>6. \A i, j \in DOMAIN ss : f[i] = f[j] => i = j
        BY <1>1 DEF FittedBy
    <2>7. \A i \in DOMAIN ss \ {m} : Other(i) \in DOMAIN cs \ {k} /\ cs[Other(i)].id = ss[i]
        BY <2>1, <2>6, <1>2
    <2>8. \A i, j \in DOMAIN ss \ {m} : Other(i) = Other(j) => i = j
        BY <2>1, <2>6
    <2> HIDE DEF Down, Other
    <2>9. g \in [DOMAIN rest -> DOMAIN less]
        BY <2>4, <2>7, <1>4
    <2>10. \A i, j \in DOMAIN rest : g[i] = g[j] => i = j
        BY <2>4, <2>5, <2>7, <2>8, <1>5
    <2>11. \A j \in DOMAIN rest : less[g[j]].id = rest[j]
        BY <2>4, <2>7, <1>4
    <2> HIDE DEF g
    <2>12. FittedBy(g, rest, less)
        BY <2>9, <2>10, <2>11 DEF FittedBy
    <2> QED
        BY <2>2, <2>3, <2>9, <2>12 DEF Fits, less
<1> QED
    BY <1>6, <1>7

LEMMA AddedChart ==
    ASSUME NEW cs \in Seq(Charts), Len(cs) < MaxCharts, NEW id \in Ids
    PROVE  LET ds == Added(cs, id) IN
           /\ ds \in Seq(Charts) /\ Len(ds) = Len(cs) + 1
           /\ \A i \in DOMAIN cs : i \in DOMAIN ds /\ ds[i] = cs[i]
           /\ ds[Len(cs) + 1] = [id |-> id, z |-> Len(cs)]
<1>1. Len(cs) \in 0 .. MaxCharts
    BY ScreenAssumption
<1>2. [id |-> id, z |-> Len(cs)] \in Charts
    BY <1>1 DEF Charts
<1> QED
    BY <1>2 DEF Added

LEMMA RaisedChart ==
    ASSUME NEW cs \in Seq(Charts), Len(cs) <= MaxCharts, NEW k \in DOMAIN cs
    PROVE  LET ds == Raised(cs, k) IN
           /\ ds \in Seq(Charts) /\ Len(ds) = Len(cs) /\ DOMAIN ds = DOMAIN cs
           /\ \A i \in DOMAIN cs : ds[i].id = cs[i].id
           /\ ds[k].z = Len(cs) - 1 /\ Under(ds, Len(cs) - 1)
<1> DEFINE Z(i) == IF i = k THEN Len(cs) - 1 ELSE IF i < k THEN i - 1 ELSE i - 2
           ds == [i \in DOMAIN cs |-> [cs[i] EXCEPT !.z = Z(i)]]
<1>1. Len(cs) \in Nat /\ DOMAIN cs = 1 .. Len(cs) /\ MaxCharts \in Nat
    BY ScreenAssumption
<1>2. \A i \in DOMAIN cs : Z(i) \in 0 .. MaxCharts /\ Z(i) <= Len(cs) - 1
    BY <1>1
<1> HIDE DEF Z
<1>3. \A i \in DOMAIN cs : cs[i] \in Charts
    OBVIOUS
<1>4. \A i \in DOMAIN cs : ds[i] \in Charts /\ ds[i].id = cs[i].id /\ ds[i].z = Z(i)
    BY <1>2, <1>3 DEF Charts
<1>5. ds \in Seq(Charts) /\ Len(ds) = Len(cs) /\ DOMAIN ds = DOMAIN cs
    <2>1. DOMAIN ds = 1 .. Len(cs)
        BY <1>1
    <2> HIDE DEF ds
    <2>2. ds \in [1 .. Len(cs) -> Charts]
        <3>1. ds = [i \in 1 .. Len(cs) |-> ds[i]]
            BY <2>1, <1>1 DEF ds
        <3> QED
            BY <3>1, <1>1, <1>4
    <2> QED
        BY <1>1, <2>2
<1>6. Z(k) = Len(cs) - 1
    BY DEF Z
<1>7. Raised(cs, k) = ds
    BY DEF Raised, Z
<1> HIDE DEF ds
<1> QED
    BY <1>2, <1>4, <1>5, <1>6, <1>7 DEF Under

LEMMA PutBackChart ==
    ASSUME NEW cs \in Seq(Charts), Len(cs) <= MaxCharts, NEW c \in Charts
    PROVE  LET ds == PutBack(cs, c) IN
           /\ ds \in Seq(Charts) /\ Len(ds) <= MaxCharts /\ Len(ds) >= Len(cs)
           /\ c \in {cs[i] : i \in DOMAIN cs} =>
                  /\ Len(ds) = Len(cs)
                  /\ \A i \in DOMAIN cs : /\ ds[i].id = cs[i].id
                                         /\ \E j \in DOMAIN cs : ds[i] = cs[j]
<1> DEFINE found == FirstWith(cs, LAMBDA d : d.id = c.id)
           k == IF found = {} THEN Len(cs) ELSE CHOOSE i \in found : TRUE
<1>1. MaxCharts \in Nat \ {0}
    BY ScreenAssumption
<1>2. CASE cs = <<>>
    BY <1>1, <1>2 DEF PutBack
<1>3. CASE cs # <<>>
    <2>1. \A i \in found : i \in DOMAIN cs /\ cs[i].id = c.id
        BY DEF FirstWith
    <2>2. Len(cs) \in DOMAIN cs
        BY <1>3
    <2>3. k \in DOMAIN cs
        BY <2>1, <2>2
    <2>4. c \in {cs[i] : i \in DOMAIN cs} => cs[k].id = c.id
        <3> SUFFICES ASSUME NEW i \in DOMAIN cs, cs[i] = c
                     PROVE  cs[k].id = c.id
            OBVIOUS
        <3>1. \E j \in DOMAIN cs : cs[j].id = c.id
            OBVIOUS
        <3>2. found # {}
            BY <3>1, FirstWithChart DEF FirstWith
        <3> QED
            BY <2>1, <3>2
    <2>5. PutBack(cs, c) = [cs EXCEPT ![k] = c]
        BY <1>3 DEF PutBack
    <2> HIDE DEF k
    <2> QED
        BY <2>3, <2>4, <2>5
<1> QED
    BY <1>2, <1>3

-----------------------------------------------------------------------------
(* One lemma per operation that changes charts or settings, one for the     *)
(* others.                                                                  *)
AddedOnTop ==
    ~raced' /\ Len(charts') > Len(charts) =>
        \A i \in DOMAIN charts' : charts'[i].z <= charts'[Len(charts')].z

Quiet == \/ LoadFetched \/ Tick \/ CancelActive \/ EditChart \/ DrawerOpens \/ DrawerCancel
         \/ SaveScreen

LEMMA QuietStep ==
    ASSUME ScreenInv, Quiet \/ UNCHANGED screenVars
    PROVE  ScreenInv' /\ AddedOnTop
<1> USE DEF ScreenInv
<1>1. charts' = charts /\ storedScreen' = storedScreen /\ raced' = raced
    BY DEF Quiet, LoadFetched, Tick, CancelActive, EditChart, DrawerOpens, DrawerCancel, SaveScreen,
           screenVars
<1>2. \/ saves' = saves
      \/ /\ Cardinality(saves) < MaxSaves /\ charts # <<>>
         /\ saves' = saves \union {[charts |-> charts, settings |-> settings]}
         /\ UNCHANGED <<settings, active, loadPhase, drawer, opening, second, operations, screenSaved>>
    BY DEF Quiet, LoadFetched, Tick, CancelActive, EditChart, DrawerOpens, DrawerCancel, SaveScreen,
           screenVars
<1>3. \A s \in (saves \union {storedScreen})' :
          s \in saves \union {storedScreen} \/ s = [charts |-> charts, settings |-> settings]
    BY <1>1, <1>2
<1>4. ScreenTypes'
    <2>1. IsFiniteSet(saves') /\ Cardinality(saves') <= MaxSaves
        <3>1. CASE saves' = saves
            BY <3>1 DEF ScreenTypes, ScreenTypeOK
        <3>2. CASE /\ Cardinality(saves) < MaxSaves
                   /\ saves' = saves \union {[charts |-> charts, settings |-> settings]}
            <4> DEFINE screen == [charts |-> charts, settings |-> settings]
            <4>1. IsFiniteSet(saves) /\ Cardinality(saves) \in Nat /\ MaxSaves \in Nat
                BY FS_CardinalityType, ScreenAssumption DEF ScreenTypes
            <4> HIDE DEF screen
            <4>2. /\ IsFiniteSet(saves \union {screen})
                  /\ Cardinality(saves \union {screen}) \in {Cardinality(saves), Cardinality(saves) + 1}
                BY <4>1, FS_AddElement
            <4> QED
                BY <3>2, <4>1, <4>2 DEF screen
        <3> QED
            BY <1>2, <3>1, <3>2
    <2>2. \A s \in (saves \union {storedScreen})' : s \in Screens /\ Len(s.charts) <= MaxCharts
        BY <1>3 DEF ScreenTypes, ScreenTypeOK, Screens
    <2>3. drawer' \in [chart : Charts \union {NoChart}, setting : Ids, open : BOOLEAN]
        <3>1. CASE EditChart
            <4>1. active \in DOMAIN charts /\ charts \in Seq(Charts)
                BY <3>1 DEF EditChart, ScreenTypes, ScreenTypeOK
            <4>2. charts[active] \in Charts
                BY <4>1
            <4> QED
                BY <3>1, <4>2 DEF EditChart, ScreenTypes
        <3>2. CASE DrawerOpens
            <4>1. PICK c \in opening : drawer' = [drawer EXCEPT !.setting = c.id, !.open = TRUE]
                BY <3>2 DEF DrawerOpens
            <4>2. c.id \in Ids
                BY DEF ScreenTypes, ScreenTypeOK, Charts
            <4> QED
                BY <4>1, <4>2 DEF ScreenTypes
        <3>3. CASE DrawerCancel
            <4>1. 0 \in Ids
                BY ScreenAssumption DEF Ids
            <4> QED
                BY <3>3, <4>1 DEF DrawerCancel, Closed
        <3>4. CASE drawer' = drawer
            BY <3>4 DEF ScreenTypes
        <3> QED
            BY <3>1, <3>2, <3>3, <3>4 DEF Quiet, LoadFetched, Tick, CancelActive, SaveScreen, screenVars
    <2>4. (loadPhase # "shown" => active = 0 /\ opening = {} /\ ~drawer.open)'
        BY DEF ScreenTypes, Quiet, LoadFetched, Tick, CancelActive, EditChart, DrawerOpens, DrawerCancel, SaveScreen, screenVars, Closed, Visible
    <2>5. settings' \in Seq(Ids)
        BY DEF ScreenTypes, ScreenTypeOK, Screens, Quiet, LoadFetched, Tick, CancelActive, EditChart, DrawerOpens, DrawerCancel, SaveScreen, screenVars
    <2>6. active' \in 0 .. Len(charts) /\ second' \in Ids /\ operations' \in 0 .. MaxOperations
        <3>1. active' = active \/ active' = 0
            BY DEF Quiet, LoadFetched, Tick, CancelActive, EditChart, DrawerOpens, DrawerCancel, SaveScreen, screenVars
        <3>2. second' = second \/ (second' = second + 1 /\ second < MaxSeconds)
            BY DEF Quiet, LoadFetched, Tick, CancelActive, EditChart, DrawerOpens, DrawerCancel, SaveScreen, screenVars
        <3>3. operations' = operations \/ (operations' = operations + 1 /\ operations < MaxOperations)
            BY DEF Operation, Quiet, LoadFetched, Tick, CancelActive, EditChart, DrawerOpens, DrawerCancel, SaveScreen, screenVars
        <3>4. Len(charts) \in Nat /\ {MaxSeconds, MaxOperations} \subseteq Nat
            BY ScreenAssumption DEF ScreenTypes, ScreenTypeOK
        <3>5. active' \in 0 .. Len(charts)
            BY <3>1, <3>4 DEF ScreenTypes, ScreenTypeOK
        <3>6. second' \in Ids
            BY <3>2, <3>4 DEF Ids, ScreenTypes, ScreenTypeOK
        <3>7. operations' \in 0 .. MaxOperations
            BY <3>3, <3>4 DEF ScreenTypes, ScreenTypeOK
        <3> QED
            BY <3>5, <3>6, <3>7
    <2>7. loadPhase' \in {"fetching", "querying", "shown", "stuck"} /\ opening' \subseteq Charts
        <3>1. loadPhase' \in {loadPhase, "querying", "stuck"}
            BY DEF Quiet, LoadFetched, Tick, CancelActive, EditChart, DrawerOpens, DrawerCancel, SaveScreen, screenVars
        <3>2. \/ opening' \subseteq opening
              \/ active # 0 /\ opening' = opening \union {charts[active]}
            BY DEF Quiet, LoadFetched, Tick, CancelActive, EditChart, DrawerOpens, DrawerCancel, SaveScreen, screenVars
        <3>3. active # 0 => charts[active] \in Charts
            BY DEF ScreenTypes, ScreenTypeOK
        <3> QED
            BY <3>1, <3>2, <3>3 DEF ScreenTypes, ScreenTypeOK
    <2>8. screenSaved' \in BOOLEAN
        BY DEF ScreenTypes, ScreenTypeOK, Quiet, LoadFetched, Tick, CancelActive, EditChart, DrawerOpens, DrawerCancel, SaveScreen, screenVars
    <2> QED
        BY <1>1, <2>1, <2>2, <2>3, <2>4, <2>5, <2>6, <2>7, <2>8 DEF ScreenTypes, ScreenTypeOK, Screens
<1>5. LoadsTheStored'
    <2>1. CASE LoadFetched
        BY <2>1 DEF LoadFetched, LoadsTheStored
    <2>2. CASE EditChart
        BY <2>2 DEF EditChart, Visible, LoadsTheStored
    <2>3. CASE ~LoadFetched /\ ~EditChart
        <3>1. settings' = settings /\ loadPhase' = loadPhase
            BY <2>3 DEF Quiet, LoadFetched, Tick, CancelActive, EditChart, DrawerOpens, DrawerCancel, SaveScreen, screenVars
        <3>2. ~raced /\ loadPhase # "shown" => saves' = saves
            BY <1>2 DEF LoadsTheStored
        <3> QED
            BY <1>1, <3>1, <3>2 DEF LoadsTheStored
    <2> QED
        BY <2>1, <2>2, <2>3
<1>6. SettingsFit'
    <2>1. (loadPhase' = loadPhase /\ settings' = settings) \/ loadPhase' # "shown"
        BY DEF Quiet, LoadFetched, Tick, CancelActive, EditChart, DrawerOpens, DrawerCancel, SaveScreen, screenVars
    <2>2. saves' # saves /\ ~raced => loadPhase = "shown"
        BY <1>2 DEF LoadsTheStored
    <2> QED
        BY <1>1, <1>2, <1>3, <2>1, <2>2 DEF SettingsFit
<1>7. Lower'
    <2>1. active' = active \/ active' = 0
        BY DEF Quiet, LoadFetched, Tick, CancelActive, EditChart, DrawerOpens, DrawerCancel, SaveScreen, screenVars
    <2>2. Len(charts) \in Nat /\ \A i \in DOMAIN charts : charts[i].z \in Nat
        <3>1. charts \in Seq(Charts)
            BY DEF ScreenTypes, ScreenTypeOK
        <3>2. \A i \in DOMAIN charts : charts[i] \in Charts
            BY <3>1
        <3>3. \A c \in Charts : c.z \in Nat
            BY ScreenAssumption DEF Charts
        <3> QED
            BY <3>1, <3>2, <3>3
    <2>3. ~raced => Under(charts, Len(charts)) /\ Under(charts, IF active' = 0 THEN Len(charts) ELSE Len(charts) - 1)
        BY <2>1, <2>2 DEF Lower, Under
    <2>4. ~raced => \A s \in (saves \union {storedScreen})' : Under(s.charts, Len(s.charts))
        BY <1>3, <2>3 DEF Lower
    <2> QED
        BY <1>1, <2>3, <2>4 DEF Lower
<1> QED
    BY <1>1, <1>4, <1>5, <1>6, <1>7 DEF AddedOnTop

(* What an operation on shown charts has to keep.                           *)
LEMMA ChartsStep ==
    ASSUME ScreenInv, UNCHANGED <<second, loadPhase, opening, saves, storedScreen, screenSaved>>,
           drawer' \in {drawer, Closed}, operations' \in 0 .. MaxOperations,
           raced' \in BOOLEAN, raced => raced',
           charts' \in Seq(Charts), Len(charts') <= MaxCharts, settings' \in Seq(Ids),
           active' \in 0 .. Len(charts'), loadPhase # "shown" => active' = 0,
           ~raced' => /\ loadPhase = "shown" /\ Fits(settings', charts')
                      /\ Under(charts', IF active' = 0 THEN Len(charts') ELSE Len(charts') - 1)
    PROVE  ScreenInv'
<1>1. Closed \in [chart : Charts \union {NoChart}, setting : Ids, open : BOOLEAN] /\ ~Closed.open
    BY ScreenAssumption DEF Closed, NoChart, Ids
<1>2. ScreenTypes'
    BY <1>1 DEF ScreenInv, ScreenTypes, ScreenTypeOK, Screens
<1>3. LoadsTheStored' /\ SettingsFit' /\ Lower'
    BY DEF ScreenInv, LoadsTheStored, SettingsFit, Lower
<1> QED
    BY <1>2, <1>3 DEF ScreenInv

LEMMA OperationCounted ==
    ASSUME ScreenInv, Operation
    PROVE  operations' \in 0 .. MaxOperations
BY ScreenAssumption DEF ScreenInv, ScreenTypes, ScreenTypeOK, Operation

(* The shown charts, in the form the lemmas above take them.                *)
LEMMA ShownCharts ==
    ASSUME ScreenInv
    PROVE  /\ charts \in Seq(Charts) /\ Len(charts) \in Nat /\ Len(charts) <= MaxCharts
           /\ DOMAIN charts = 1 .. Len(charts)
           /\ settings \in Seq(Ids) /\ second \in Ids /\ active \in 0 .. Len(charts)
           /\ \A i \in DOMAIN charts : charts[i] \in Charts /\ charts[i].z \in Nat /\ charts[i].id \in Ids
           /\ ~raced /\ loadPhase = "shown" => Fits(settings, charts)
           /\ ~raced => Under(charts, Len(charts))
           /\ raced \in BOOLEAN
<1>1. /\ charts \in Seq(Charts) /\ Len(charts) \in Nat /\ Len(charts) <= MaxCharts
      /\ DOMAIN charts = 1 .. Len(charts) /\ settings \in Seq(Ids) /\ active \in 0 .. Len(charts)
      /\ second \in Ids /\ raced \in BOOLEAN
    BY DEF ScreenInv, ScreenTypes, ScreenTypeOK
<1>2. \A i \in DOMAIN charts : charts[i] \in Charts
    BY <1>1
<1>3. \A c \in Charts : c.z \in Nat /\ c.id \in Ids
    BY ScreenAssumption DEF Charts
<1>4. ~raced => Under(charts, Len(charts))
    BY <1>1, <1>2, <1>3 DEF ScreenInv, Lower, Under
<1> QED
    BY <1>1, <1>2, <1>3, <1>4 DEF ScreenInv, SettingsFit

LEMMA AddChartStep ==
    ASSUME ScreenInv, AddChart
    PROVE  ScreenInv' /\ AddedOnTop
<1> DEFINE ds == Added(charts, second)
<1>1. charts' = ds /\ active' = active /\ settings' = settings /\ Len(charts) < MaxCharts
    BY DEF AddChart
<1>2. /\ ds \in Seq(Charts) /\ Len(ds) = Len(charts) + 1
      /\ \A i \in DOMAIN charts : i \in DOMAIN ds /\ ds[i] = charts[i]
      /\ ds[Len(charts) + 1] = [id |-> second, z |-> Len(charts)]
    BY <1>1, ShownCharts, AddedChart
<1> HIDE DEF ds
<1>3. ~raced' => ~raced /\ loadPhase = "shown"
    BY DEF AddChart
<1>4. \A i \in DOMAIN ds : i \in DOMAIN charts \/ i = Len(charts) + 1
    BY <1>2, ShownCharts
<1>5. ~raced' => Under(ds, Len(ds) - 1) /\ Under(ds, Len(ds)) /\ Under(ds, ds[Len(ds)].z)
    <2> SUFFICES ASSUME ~raced', NEW i \in DOMAIN ds
                 PROVE  ds[i].z <= Len(charts) /\ ds[i].z <= Len(charts) + 1
        BY <1>2, ShownCharts DEF Under
    <2>1. CASE i \in DOMAIN charts
        BY <2>1, <1>2, <1>3, ShownCharts DEF Under
    <2>2. CASE i = Len(charts) + 1
        BY <2>2, <1>2, ShownCharts
    <2> QED
        BY <1>4, <2>1, <2>2
<1>6. ~raced' => Fits(settings, ds)
    BY <1>2, <1>3, ShownCharts, FitsMore
<1>7. active \in 0 .. Len(ds) /\ Len(ds) <= MaxCharts
    BY <1>1, <1>2, ShownCharts, ScreenAssumption
<1>8. ScreenInv'
    <2>1. loadPhase # "shown" => active = 0
        BY DEF ScreenInv, ScreenTypes
    <2>2. operations' \in 0 .. MaxOperations
        BY OperationCounted DEF AddChart
    <2>3. raced' \in BOOLEAN /\ (raced => raced')
        BY ShownCharts DEF AddChart
    <2>4. UNCHANGED <<second, loadPhase, opening, drawer, saves, storedScreen, screenSaved>>
        BY DEF AddChart
    <2> QED
        BY <1>1, <1>2, <1>3, <1>5, <1>6, <1>7, <2>1, <2>2, <2>3, <2>4, ShownCharts, ChartsStep
<1>9. AddedOnTop
    BY <1>1, <1>5 DEF AddedOnTop, Under
<1> QED
    BY <1>8, <1>9

LEMMA ActivateStep ==
    ASSUME ScreenInv, ActivateChart
    PROVE  ScreenInv' /\ AddedOnTop
<1>1. PICK k \in DOMAIN charts : active' = k /\ charts' = Raised(charts, k)
    BY DEF ActivateChart
<1> DEFINE ds == Raised(charts, k)
<1>2. /\ ds \in Seq(Charts) /\ Len(ds) = Len(charts) /\ DOMAIN ds = DOMAIN charts
      /\ \A i \in DOMAIN charts : ds[i].id = charts[i].id
      /\ Under(ds, Len(ds) - 1)
    BY <1>1, ShownCharts, RaisedChart
<1> HIDE DEF ds
<1>3. loadPhase = "shown" /\ settings' = settings /\ raced' = raced
    BY DEF ActivateChart, Visible
<1>4. ~raced => Fits(settings, ds)
    BY <1>2, <1>3, ShownCharts, FitsMore
<1>5. operations' \in 0 .. MaxOperations
    BY OperationCounted DEF ActivateChart
<1>6. k \in 0 .. Len(ds) /\ k # 0
    BY <1>2, ShownCharts
<1>7. UNCHANGED <<second, loadPhase, opening, drawer, saves, storedScreen, screenSaved>>
    BY DEF ActivateChart
<1>8. ScreenInv'
    BY <1>1, <1>2, <1>3, <1>4, <1>5, <1>6, <1>7, ShownCharts, ChartsStep DEF ds
<1>9. AddedOnTop
    BY <1>1, <1>2, ShownCharts DEF AddedOnTop, ds
<1> QED
    BY <1>8, <1>9

LEMMA DeleteStep ==
    ASSUME ScreenInv, DeleteChart
    PROVE  ScreenInv' /\ AddedOnTop
<1> DEFINE ds == Without(charts, active)
           ss == WithoutSetting(settings, charts[active].id)
<1>1. /\ loadPhase = "shown" /\ active \in DOMAIN charts /\ active # 0
      /\ charts' = ds /\ settings' = ss /\ active' = 0 /\ raced' = raced
    BY ShownCharts DEF DeleteChart, Visible
<1>2. /\ ds \in Seq(Charts) /\ Len(ds) = Len(charts) - 1
      /\ \A j \in 1 .. Len(charts) - 1 : After(active, j) \in DOMAIN charts /\ ds[j] = charts[After(active, j)]
    BY <1>1, ShownCharts, WithoutOne
<1>3. ss \in Seq(Ids)
    <2>1. CASE charts[active].id \in SettingsOf(settings)
        <3>1. (CHOOSE i \in FirstWith(settings, LAMBDA s : s = charts[active].id) : TRUE) \in DOMAIN settings
            BY <2>1, ShownCharts, FirstWithId DEF FirstWith
        <3> QED
            BY <2>1, <3>1, ShownCharts, WithoutOne DEF WithoutSetting
    <2>2. CASE charts[active].id \notin SettingsOf(settings)
        BY <2>2, ShownCharts DEF WithoutSetting
    <2> QED
        BY <2>1, <2>2
<1>4. ~raced => Fits(ss, ds)
    BY <1>1, ShownCharts, FitsOneLess
<1> HIDE DEF ds, ss
<1>5. ~raced => Under(ds, Len(ds))
    <2> SUFFICES ASSUME ~raced, NEW j \in DOMAIN ds
                 PROVE  ds[j].z <= Len(ds)
        BY DEF Under
    <2>1. j \in 1 .. Len(charts) - 1
        BY <1>2, ShownCharts
    <2>2. Under(charts, Len(charts) - 1)
        BY <1>1 DEF ScreenInv, Lower
    <2> QED
        BY <1>2, <2>1, <2>2 DEF Under
<1>6. operations' \in 0 .. MaxOperations
    BY OperationCounted DEF DeleteChart
<1>7. Len(ds) <= MaxCharts /\ 0 \in 0 .. Len(ds) /\ ~ (Len(ds) > Len(charts))
    BY <1>1, <1>2, ShownCharts, ScreenAssumption
<1>8. UNCHANGED <<second, loadPhase, opening, drawer, saves, storedScreen, screenSaved>>
    BY DEF DeleteChart
<1>9. ScreenInv'
    BY <1>1, <1>2, <1>3, <1>4, <1>5, <1>6, <1>7, <1>8, ShownCharts, ChartsStep
<1>10. AddedOnTop
    BY <1>1, <1>7 DEF AddedOnTop
<1> QED
    BY <1>9, <1>10

LEMMA CopyStep ==
    ASSUME ScreenInv, CopyChart
    PROVE  ScreenInv' /\ AddedOnTop
<1> DEFINE top == Len(charts) + 1
           more == Added(charts, second)
           ds == Raised(more, top)
<1>1. /\ loadPhase = "shown" /\ active \in DOMAIN charts /\ active # 0 /\ Len(charts) < MaxCharts
      /\ charts' = ds /\ active' = top /\ raced' = raced
    BY ShownCharts DEF CopyChart, Visible
<1>2. /\ more \in Seq(Charts) /\ Len(more) = top
      /\ \A i \in DOMAIN charts : i \in DOMAIN more /\ more[i] = charts[i]
      /\ more[top] = [id |-> second, z |-> Len(charts)]
    BY <1>1, ShownCharts, AddedChart
<1> HIDE DEF more
<1>3. top \in DOMAIN more /\ Len(more) <= MaxCharts /\ top \notin DOMAIN charts
    BY <1>1, <1>2, ShownCharts, ScreenAssumption
<1>4. /\ ds \in Seq(Charts) /\ Len(ds) = top /\ DOMAIN ds = DOMAIN more
      /\ \A i \in DOMAIN more : ds[i].id = more[i].id
      /\ ds[top].z = Len(ds) - 1 /\ Under(ds, Len(ds) - 1)
    BY <1>2, <1>3, RaisedChart
<1> HIDE DEF ds
<1>5. \A i \in DOMAIN charts : i \in DOMAIN ds /\ ds[i].id = charts[i].id
    BY <1>2, <1>4
<1>6. top \in DOMAIN ds /\ ds[top].id = second
    BY <1>2, <1>3, <1>4
<1>7. settings' \in Seq(Ids) /\ (~raced => Fits(settings', ds))
    <2>1. CASE charts[active].id \in SettingsOf(settings)
        <3>1. settings' = Append(settings, second)
            BY <2>1 DEF CopyChart
        <3>2. ASSUME ~raced PROVE Fits(Append(settings, second), ds)
            <4>1. DOMAIN charts \subseteq DOMAIN ds /\ Fits(settings, charts) /\ top \in DOMAIN ds
                BY <1>1, <1>5, <1>6, <3>2, ShownCharts
            <4> HIDE DEF top
            <4> QED
                BY <1>3, <1>4, <1>5, <1>6, <4>1, ShownCharts, FitsOneMore
        <3> QED
            BY <3>1, <3>2, ShownCharts
    <2>2. CASE charts[active].id \notin SettingsOf(settings)
        <3>1. settings' = settings
            BY <2>2 DEF CopyChart
        <3>2. ~raced => Fits(settings, ds)
            BY <1>1, <1>4, <1>5, ShownCharts, FitsMore
        <3> QED
            BY <3>1, <3>2, ShownCharts
    <2> QED
        BY <2>1, <2>2
<1>8. operations' \in 0 .. MaxOperations
    BY OperationCounted DEF CopyChart
<1>9. top \in 0 .. Len(ds) /\ top # 0 /\ Len(ds) <= MaxCharts
    BY <1>2, <1>3, <1>4, ShownCharts
<1>10. UNCHANGED <<second, loadPhase, opening, drawer, saves, storedScreen, screenSaved>>
    BY DEF CopyChart
<1> HIDE DEF top
<1>11. ScreenInv'
    BY <1>1, <1>4, <1>7, <1>8, <1>9, <1>10, ShownCharts, ChartsStep
<1>12. AddedOnTop
    BY <1>1, <1>4 DEF AddedOnTop, Under
<1> QED
    BY <1>11, <1>12

LEMMA DrawerSaveStep ==
    ASSUME ScreenInv, DrawerSave
    PROVE  ScreenInv' /\ AddedOnTop
<1>1. /\ drawer.chart \in Charts \union {NoChart} /\ drawer.setting \in Ids
      /\ loadPhase = "shown" /\ active' = active
      /\ raced' = (raced \/ Stale(drawer))
    BY DEF DrawerSave, ScreenInv, ScreenTypes
<1>2. NoChart \notin Charts
    BY ScreenAssumption DEF NoChart, Charts
<1>3. ~raced' => ~raced /\ ~Stale(drawer)
    BY <1>1
<1>4. /\ charts' \in Seq(Charts) /\ Len(charts') <= MaxCharts /\ Len(charts') >= Len(charts)
      /\ ~Stale(drawer) =>
             /\ Len(charts') = Len(charts)
             /\ \A i \in DOMAIN charts : /\ charts'[i].id = charts[i].id
                                        /\ \E j \in DOMAIN charts : charts'[i] = charts[j]
    <2>1. CASE drawer.chart = NoChart
        BY <2>1, ShownCharts DEF DrawerSave
    <2>2. CASE drawer.chart # NoChart
        <3>1. charts' = PutBack(charts, drawer.chart) /\ drawer.chart \in Charts
            BY <1>1, <2>2 DEF DrawerSave
        <3>2. ~Stale(drawer) => drawer.chart \in {charts[i] : i \in DOMAIN charts}
            BY DEF Stale
        <3> QED
            BY <3>1, <3>2, ShownCharts, PutBackChart
    <2> QED
        BY <2>1, <2>2
<1>5. ~raced' => DOMAIN charts' = DOMAIN charts
    BY <1>3, <1>4, ShownCharts
<1>6. settings' \in Seq(Ids)
    BY <1>1, ShownCharts DEF DrawerSave
<1>7. ~raced' => Fits(settings', charts')
    <2> SUFFICES ASSUME ~raced'
                 PROVE  Fits(settings', charts')
        OBVIOUS
    <2>1. CASE drawer.setting \in SettingsOf(settings)
        <3>1. settings' = settings
            BY <2>1 DEF DrawerSave
        <3> QED
            BY <1>1, <1>3, <1>4, <1>5, <3>1, ShownCharts, FitsMore
    <2>2. CASE drawer.setting \notin SettingsOf(settings)
        <3>1. settings' = Append(settings, drawer.setting)
            BY <2>2 DEF DrawerSave
        <3>2. PICK k \in DOMAIN charts : charts[k].id = drawer.setting
            BY <1>3 DEF Stale
        <3>3. k \in DOMAIN charts' /\ charts'[k].id = drawer.setting
            BY <1>3, <1>4, <1>5, <3>2
        <3>4. Fits(Append(settings, drawer.setting), charts')
            BY <1>1, <1>3, <1>4, <1>5, <2>2, <3>3, ShownCharts, FitsOneMore
        <3> QED
            BY <3>1, <3>4
    <2> QED
        BY <2>1, <2>2
<1>8. ~raced' => Under(charts', IF active' = 0 THEN Len(charts') ELSE Len(charts') - 1)
    BY <1>1, <1>3, <1>4, <1>5 DEF ScreenInv, Lower, Under
<1>9. operations' \in 0 .. MaxOperations
    BY DEF DrawerSave, ScreenInv, ScreenTypes, ScreenTypeOK
<1>10. active' \in 0 .. Len(charts')
    BY <1>1, <1>4, ShownCharts
<1>11. raced' \in BOOLEAN /\ (raced => raced')
    BY <1>1, ShownCharts DEF Stale
<1>12. UNCHANGED <<second, loadPhase, opening, saves, storedScreen, screenSaved>> /\ drawer' \in {drawer, Closed}
    BY DEF DrawerSave
<1>13. ScreenInv'
    BY <1>1, <1>4, <1>6, <1>7, <1>8, <1>9, <1>10, <1>11, <1>12, ChartsStep
<1>14. AddedOnTop
    BY <1>3, <1>4, ShownCharts DEF AddedOnTop
<1> QED
    BY <1>13, <1>14

LEMMA LoadQueriedStep ==
    ASSUME ScreenInv, LoadQueried
    PROVE  ScreenInv' /\ AddedOnTop
<1>1. /\ loadPhase = "querying" /\ loadPhase' \in {"shown", "stuck"}
      /\ charts' \in {charts, storedScreen.charts} /\ (loadPhase' = "shown" => charts' = storedScreen.charts)
      /\ (loadPhase' = "stuck" => charts' = charts)
      /\ UNCHANGED <<settings, active, second, operations, opening, drawer, saves, storedScreen,
                     screenSaved, raced>>
    BY DEF LoadQueried
<1>2. storedScreen \in Screens /\ Len(storedScreen.charts) <= MaxCharts /\ active = 0
    BY <1>1 DEF ScreenInv, ScreenTypes
<1>3. charts' \in Seq(Charts) /\ Len(charts') <= MaxCharts /\ Len(charts') \in Nat
    BY <1>1, <1>2, ShownCharts DEF Screens
<1>4. ScreenTypes'
    BY <1>1, <1>2, <1>3 DEF ScreenInv, ScreenTypes, ScreenTypeOK
<1>5. ~raced => settings = storedScreen.settings /\ Len(storedScreen.charts) <= 1 /\ saves = {} /\ charts = <<>>
    BY <1>1 DEF ScreenInv, LoadsTheStored
<1>6. LoadsTheStored'
    BY <1>1, <1>5 DEF LoadsTheStored
<1>7. SettingsFit'
    BY <1>1, <1>5 DEF ScreenInv, SettingsFit
<1>8. Lower'
    BY <1>1, <1>2 DEF ScreenInv, Lower
<1>9. AddedOnTop
    <2> SUFFICES ASSUME ~raced, Len(charts') > Len(charts), NEW i \in DOMAIN charts'
                 PROVE  charts'[i].z <= charts'[Len(charts')].z
        BY <1>1 DEF AddedOnTop
    <2>1. Len(charts') <= 1
        BY <1>1, <1>5
    <2>2. i = Len(charts') /\ charts'[i] \in Charts
        BY <1>3, <2>1
    <2> QED
        BY <2>2, ScreenAssumption DEF Charts
<1> QED
    BY <1>4, <1>6, <1>7, <1>8, <1>9 DEF ScreenInv

LEMMA SaveAnsweredStep ==
    ASSUME ScreenInv, SaveAnswered
    PROVE  ScreenInv' /\ AddedOnTop
<1>1. PICK s \in saves :
          /\ saves' = saves \ {s}
          /\ \/ /\ storedScreen' = s
                /\ charts' = <<>> /\ settings' = <<>> /\ drawer' = Closed
                /\ active' = 0
                /\ screenSaved' = TRUE
             \/ UNCHANGED <<storedScreen, charts, settings, drawer, active, screenSaved>>
          /\ UNCHANGED <<second, operations, loadPhase, opening, raced>>
    BY DEF SaveAnswered
<1>2. (saves \union {storedScreen})' \subseteq saves \union {storedScreen}
    BY <1>1
<1>3. IsFiniteSet(saves') /\ Cardinality(saves') <= MaxSaves
    <2>1. IsFiniteSet(saves) /\ Cardinality(saves) \in Nat /\ Cardinality(saves) <= MaxSaves /\ MaxSaves \in Nat
        BY FS_CardinalityType, ScreenAssumption DEF ScreenInv, ScreenTypes, ScreenTypeOK
    <2>2. IsFiniteSet(saves \ {s}) /\ Cardinality(saves \ {s}) = Cardinality(saves) - 1
        BY <2>1, FS_RemoveElement
    <2> QED
        BY <1>1, <2>1, <2>2
<1>4. Closed \in [chart : Charts \union {NoChart}, setting : Ids, open : BOOLEAN] /\ ~Closed.open
    BY ScreenAssumption DEF Closed, NoChart, Ids
<1>5. /\ <<>> \in Seq(Charts) /\ <<>> \in Seq(Ids) /\ Len(<<>>) = 0 /\ 0 <= MaxCharts /\ 0 \in 0 .. 0
      /\ DOMAIN <<>> = {}
    BY ScreenAssumption
<1>6. CASE UNCHANGED <<charts, settings, drawer, active>>
    <2>1. ScreenTypes'
        <3>1. screenSaved' \in BOOLEAN
            BY <1>1 DEF ScreenInv, ScreenTypes, ScreenTypeOK
        <3> QED
            BY <1>1, <1>2, <1>3, <1>6, <3>1 DEF ScreenInv, ScreenTypes, ScreenTypeOK
    <2>2. LoadsTheStored'
        BY <1>1, <1>6 DEF ScreenInv, LoadsTheStored
    <2>3. SettingsFit'
        BY <1>1, <1>2, <1>6 DEF ScreenInv, SettingsFit
    <2>4. Lower'
        BY <1>1, <1>2, <1>6 DEF ScreenInv, Lower
    <2>5. AddedOnTop
        BY <1>6, ShownCharts DEF AddedOnTop
    <2> QED
        BY <2>1, <2>2, <2>3, <2>4, <2>5 DEF ScreenInv
<1>7. CASE /\ charts' = <<>> /\ settings' = <<>> /\ drawer' = Closed /\ active' = 0
           /\ screenSaved' = TRUE
    <2>1. ScreenTypes'
        BY <1>1, <1>2, <1>3, <1>4, <1>5, <1>7 DEF ScreenInv, ScreenTypes, ScreenTypeOK
    <2>2. LoadsTheStored'
        BY <1>1 DEF ScreenInv, LoadsTheStored
    <2>3. Fits(settings', charts')
        <3>1. FittedBy(<<>>, <<>>, <<>>)
            BY DEF FittedBy
        <3> QED
            BY <1>7, <3>1 DEF Fits, FittedBy
    <2>4. SettingsFit'
        BY <1>1, <1>2, <2>3 DEF ScreenInv, SettingsFit
    <2>5. Lower'
        BY <1>1, <1>2, <1>5, <1>7 DEF ScreenInv, Lower, Under
    <2>6. AddedOnTop
        BY <1>7, ShownCharts DEF AddedOnTop
    <2> QED
        BY <2>1, <2>2, <2>4, <2>5, <2>6 DEF ScreenInv
<1> QED
    BY <1>1, <1>6, <1>7

LEMMA ScreenInitInv ==
    ASSUME ScreenInit
    PROVE  ScreenInv
<1>1. /\ <<>> \in Seq(Charts) /\ <<>> \in Seq(Ids) /\ Len(<<>>) = 0 /\ 0 \in 0 .. 0 /\ DOMAIN <<>> = {}
      /\ 1 <= MaxCharts /\ 0 \in Ids /\ 1 \in Ids /\ 0 \in 0 .. MaxCharts /\ 0 \in 0 .. MaxOperations
      /\ 0 <= MaxCharts
    BY ScreenAssumption DEF Ids
<1>2. Closed \in [chart : Charts \union {NoChart}, setting : Ids, open : BOOLEAN] /\ ~Closed.open
    BY ScreenAssumption DEF Closed, NoChart, Ids
<1>3. PICK cs \in {<<>>, <<[id |-> 0, z |-> 0]>>}, ss \in {<<>>, <<0>>} :
          /\ storedScreen = [charts |-> cs, settings |-> ss]
          /\ cs = <<>> <=> ss = <<>>
          /\ loadPhase = IF cs = <<>> THEN "shown" ELSE "fetching"
    BY DEF ScreenInit
<1>4. /\ cs \in Seq(Charts) /\ Len(cs) <= 1 /\ Under(cs, Len(cs)) /\ ss \in Seq(Ids)
    <2> DEFINE chart == [id |-> 0, z |-> 0]
    <2>1. chart \in Charts /\ chart.z <= 1
        BY <1>1 DEF Charts
    <2> HIDE DEF chart
    <2>2. <<chart>> \in Seq(Charts) /\ Len(<<chart>>) = 1 /\ Under(<<chart>>, 1)
        BY <2>1 DEF Under
    <2>3. <<0>> \in Seq(Ids)
        BY <1>1
    <2>4. Under(<<>>, 0)
        BY DEF Under
    <2>5. cs \in {<<>>, <<chart>>}
        BY DEF chart
    <2>6. cs \in Seq(Charts) /\ Len(cs) <= 1 /\ Under(cs, Len(cs))
        <3>1. CASE cs = <<>>
            BY <3>1, <1>1, <2>4
        <3>2. CASE cs = <<chart>>
            BY <3>2, <2>2
        <3> QED
            BY <2>5, <3>1, <3>2
    <2> QED
        BY <1>1, <2>3, <2>6
<1>5. Fits(<<>>, <<>>) /\ Fits(ss, cs)
    <2>1. FittedBy(<<>>, <<>>, <<>>)
        BY DEF FittedBy
    <2>2. FittedBy(<<1>>, <<0>>, <<[id |-> 0, z |-> 0]>>)
        BY DEF FittedBy
    <2>3. Fits(<<0>>, <<[id |-> 0, z |-> 0]>>)
        BY <2>2 DEF Fits, FittedBy
    <2>4. Fits(<<>>, <<>>)
        BY <2>1 DEF Fits, FittedBy
    <2> QED
        BY <1>3, <2>3, <2>4
<1>6. IsFiniteSet(saves) /\ Cardinality(saves) = 0 /\ 0 <= MaxSaves /\ saves = {}
    BY FS_EmptySet, ScreenAssumption DEF ScreenInit
<1>7. storedScreen \in Screens /\ Len(storedScreen.charts) <= MaxCharts
    BY <1>1, <1>3, <1>4, ScreenAssumption DEF Screens
<1>8. ScreenTypes
    BY <1>1, <1>2, <1>3, <1>6, <1>7 DEF ScreenInit, ScreenTypes, ScreenTypeOK, Screens
<1>9. LoadsTheStored
    BY <1>3, <1>4 DEF ScreenInit, LoadsTheStored
<1>10. SettingsFit
    BY <1>3, <1>5, <1>6 DEF ScreenInit, SettingsFit
<1>11. Lower
    BY <1>1, <1>3, <1>4, <1>6 DEF ScreenInit, Lower, Under
<1> QED
    BY <1>8, <1>9, <1>10, <1>11 DEF ScreenInv

LEMMA ScreenStep ==
    ASSUME ScreenInv, [ScreenNext]_screenVars
    PROVE  ScreenInv' /\ AddedOnTop
<1>1. CASE Quiet \/ UNCHANGED screenVars
    BY <1>1, QuietStep
<1>2. CASE LoadQueried
    BY <1>2, LoadQueriedStep
<1>3. CASE AddChart
    BY <1>3, AddChartStep
<1>4. CASE ActivateChart
    BY <1>4, ActivateStep
<1>5. CASE DeleteChart
    BY <1>5, DeleteStep
<1>6. CASE CopyChart
    BY <1>6, CopyStep
<1>7. CASE DrawerSave
    BY <1>7, DrawerSaveStep
<1>8. CASE SaveAnswered
    BY <1>8, SaveAnsweredStep
<1> QED
    BY <1>1, <1>2, <1>3, <1>4, <1>5, <1>6, <1>7, <1>8 DEF ScreenNext, Quiet

(* A setting that fits has its chart.                                       *)
LEMMA FittedSettings ==
    ASSUME ScreenInv
    PROVE  ScreenTypeOK /\ SettingsHaveCharts
<1>1. ASSUME NEW ss, NEW cs, Fits(ss, cs)
      PROVE  SettingsOf(ss) \subseteq IdsOf(cs)
    BY <1>1 DEF Fits, FittedBy, SettingsOf, IdsOf
<1>2. SettingsHaveCharts
    BY <1>1 DEF ScreenInv, SettingsFit, SettingsHaveCharts, CanShow
<1> QED
    BY <1>2 DEF ScreenInv, ScreenTypes

(* However charts are added, copied, configured, raised and deleted, every  *)
(* setting has its chart, on the page and in what is stored, and a new      *)
(* chart is painted above the others, unless the editor raced.              *)
THEOREM ScreensKeepTheirSettings ==
    ScreenSpec => []ScreenTypeOK /\ []SettingsHaveCharts /\ NewChartIsOnTop
<1>1. ScreenInit => ScreenInv
    BY ScreenInitInv
<1>2. ScreenInv /\ [ScreenNext]_screenVars => ScreenInv'
    BY ScreenStep
<1>3. ScreenInv => ScreenTypeOK /\ SettingsHaveCharts
    BY FittedSettings
<1>4. ScreenInv /\ [ScreenNext]_screenVars
          => [~raced' /\ Len(charts') > Len(charts) =>
                 \A i \in DOMAIN charts' : charts'[i].z <= charts'[Len(charts')].z]_screenVars
    BY ScreenStep DEF AddedOnTop
<1> QED
    BY <1>1, <1>2, <1>3, <1>4, PTL DEF ScreenSpec, NewChartIsOnTop
=============================================================================
