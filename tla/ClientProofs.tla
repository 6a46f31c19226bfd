---------------------------- MODULE ClientProofs ----------------------------
(***************************************************************************)
(* The lists and the page of an alert, for any numbers of items, alerts,   *)
(* fetches and requests; and the pages together, in a browser that has one of *)
(* them open (MCClient).                                                   *)
(***************************************************************************)
EXTENDS Integers, MCClient, QueryPageProofs, DashboardProofs, SequenceTheorems,
        FiniteSetTheorems, TLAPS

(* Lists.                                                                   *)

(* A list that is paged by the server, and that never sent a request during *)
(* another, waits for the items of its present controls.                    *)
OneFetch ==
    ~isPlainList /\ ~crossed => \A f, g \in fetches : f = g /\ f.for = controls

(* A plain list that waits for nothing is sorted by its present controls,   *)
(* or shows an error.                                                       *)
OrderIsKept ==
    isPlainList /\ fetches = {} => listLoad = "failed" \/ allItemsOrder = OrderOf(controls)

ListInv == ListTypeOK /\ OneFetch /\ OrderIsKept /\ ShownIsAsked /\ PageInRange

Uncounted(c) == [c EXCEPT !.totalCount = 0]

-----------------------------------------------------------------------------
(* The paginator.                                                           *)

LEMMA ControlsAreNumbers ==
  ASSUME NEW c \in Controls
  PROVE  c.page \in Nat \ {0} /\ c.itemsPerPage \in Nat \ {0} /\ c.totalCount \in Nat
<1>1. c.page \in Nat \ {0} /\ c.itemsPerPage \in PageSizes /\ c.totalCount \in 0 .. MaxItems
  BY DEF Controls
<1>2. \A size \in PageSizes : size \in Nat \ {0}
  BY ListAssumption
<1>3. c.itemsPerPage \in Nat \ {0}
  BY <1>1, <1>2
<1>4. c.totalCount \in Nat
  BY <1>1, ListAssumption
<1> QED
  BY <1>1, <1>3, <1>4

LEMMA PagesAreCounted ==
  ASSUME NEW c \in Controls
  PROVE  TotalPages(c) \in Int
<1>1. c.itemsPerPage \in Nat \ {0} /\ c.totalCount + c.itemsPerPage - 1 \in Int
  BY ControlsAreNumbers
<1> QED
  BY <1>1 DEF TotalPages

(* A page that is set is 1, or what was asked and one of the pages.         *)
LEMMA PageIsSet ==
  ASSUME NEW c \in Controls, NEW asked \in Nat
  PROVE  /\ SetPage(c, asked) \in Controls
         /\ SetPage(c, asked).page \in {1, asked}
         /\ SetPage(c, asked).totalCount = c.totalCount
         /\ SetPage(c, asked).page = 1 \/ SetPage(c, asked).page <= TotalPages(SetPage(c, asked))
         /\ SetPage(c, asked) = [c EXCEPT !.page = SetPage(c, asked).page]
<1> DEFINE shown == IF asked \in 1 .. TotalPages(c) THEN asked ELSE 1
           d == SetPage(c, asked)
<1>1. shown \in Nat \ {0} /\ shown \in {1, asked} /\ (shown = 1 \/ shown <= TotalPages(c))
  BY PagesAreCounted
<1>2. d = [c EXCEPT !.page = shown]
  BY DEF SetPage
<1> HIDE DEF shown, d
<1>3. d \in Controls /\ d.page = shown /\ d.totalCount = c.totalCount /\ d.itemsPerPage = c.itemsPerPage
  BY <1>1, <1>2 DEF Controls
<1>4. TotalPages(d) = TotalPages(c)
  BY <1>3 DEF TotalPages
<1> QED
  BY <1>1, <1>2, <1>3, <1>4 DEF d

LEMMA SizeIsSet ==
  ASSUME NEW c \in Controls, NEW size \in PageSizes, NEW p \in Nat
  PROVE  /\ SetPage(SetItemsPerPage(c, size), p) \in Controls
         /\ OrderOf(SetPage(SetItemsPerPage(c, size), p)) = OrderOf(c)
<1> DEFINE sized == [c EXCEPT !.itemsPerPage = size]
<1>1. sized \in Controls /\ c.page \in Nat /\ OrderOf(sized) = OrderOf(c)
  BY DEF Controls, OrderOf
<1> HIDE DEF sized
<1>2. ASSUME NEW d \in Controls, NEW n \in Nat
      PROVE  SetPage(d, n) \in Controls /\ OrderOf(SetPage(d, n)) = OrderOf(d)
  <2>1. SetPage(d, n) \in Controls /\ SetPage(d, n) = [d EXCEPT !.page = SetPage(d, n).page]
    BY PageIsSet
  <2>2. SetPage(d, n).field = d.field /\ SetPage(d, n).reverse = d.reverse
    BY <2>1 DEF Controls
  <2> QED
    BY <2>1, <2>2 DEF OrderOf
<1>3. SetItemsPerPage(c, size) = SetPage(sized, c.page)
  BY DEF SetItemsPerPage, sized
<1> QED
  BY <1>1, <1>2, <1>3

(* After an answer the page is one of the pages there are now, and the      *)
(* controls are otherwise as they were.                                     *)
LEMMA CountIsSet ==
  ASSUME NEW c \in Controls, NEW n \in 0 .. MaxItems
  PROVE  /\ SetTotalCount(c, n) \in Controls
         /\ SetTotalCount(c, n).page = 1
            \/ SetTotalCount(c, n).page <= TotalPages(SetTotalCount(c, n))
         /\ SetTotalCount(c, n).page = c.page => Uncounted(SetTotalCount(c, n)) = Uncounted(c)
         /\ OrderOf(SetTotalCount(c, n)) = OrderOf(c)
<1> DEFINE counted == [c EXCEPT !.totalCount = n]
           d == SetPage(counted, c.page)
<1>1. counted \in Controls /\ c.page \in Nat /\ counted.page = c.page
  BY DEF Controls
<1>2. SetTotalCount(c, n) = d
  BY DEF SetTotalCount
<1>3. /\ d \in Controls /\ (d.page = 1 \/ d.page <= TotalPages(d))
      /\ d = [counted EXCEPT !.page = d.page]
  BY <1>1, PageIsSet
<1>4. ASSUME d.page = c.page PROVE Uncounted(d) = Uncounted(c)
  <2>1. d = counted
    BY <1>1, <1>3, <1>4 DEF Controls
  <2> QED
    BY <2>1 DEF Uncounted, Controls
<1>5. OrderOf(d) = OrderOf(c)
  <2>1. d.field = c.field /\ d.reverse = c.reverse
    BY <1>1, <1>3 DEF Controls
  <2> QED
    BY <2>1 DEF OrderOf
<1> QED
  BY <1>2, <1>3, <1>4, <1>5

LEMMA OrderIsSet ==
  ASSUME NEW c \in Controls, NEW field \in OrderFields
  PROVE  ToggleField(c, field) \in Controls
BY DEF ToggleField, Controls, OrderFields

LEMMA ItemsOfPage ==
  ASSUME NEW c \in Controls, NEW n \in 0 .. MaxItems
  PROVE  ItemsForPage(c, n) \in 0 .. MaxItems
<1> DEFINE first == c.itemsPerPage * (c.page - 1)
<1>1. c.itemsPerPage \in Nat /\ c.page - 1 \in Nat
  BY ControlsAreNumbers
<1>2. first \in Nat
  BY <1>1
<1>3. ItemsForPage(c, n) = IF n <= first THEN 0
                           ELSE IF n < first + c.itemsPerPage THEN n - first ELSE c.itemsPerPage
  BY DEF ItemsForPage
<1> HIDE DEF first
<1> QED
  BY <1>1, <1>2, <1>3, ListAssumption

-----------------------------------------------------------------------------
(* Steps. *)

LEMMA FetchStep ==
  ASSUME ListInv, NEW c \in Controls, Fetch(c), savedField' \in OrderFields
  PROVE  ListInv'
<1>1. /\ fetched' \in 1 .. MaxFetches
      /\ fetches' = fetches \union {[number |-> fetched', for |-> c]}
      /\ controls' = c /\ listLoad' = "loading"
      /\ crossed' = (crossed \/ fetches # {})
      /\ UNCHANGED <<isPlainList, count, allItemsOrder, listShown, pageMoved>>
  BY ListAssumption DEF Fetch, ListInv, ListTypeOK
<1>2. ~crossed' => ~crossed /\ fetches = {}
  BY <1>1, Zenon
<1>3. ListTypeOK'
  BY <1>1 DEF ListInv, ListTypeOK
<1>4. OneFetch'
  BY <1>1, <1>2 DEF OneFetch
<1>5. OrderIsKept'
  BY <1>1 DEF OrderIsKept
<1>6. ShownIsAsked' /\ PageInRange'
  BY <1>1 DEF ShownIsAsked, PageInRange
<1> QED
  BY <1>3, <1>4, <1>5, <1>6 DEF ListInv

LEMMA ReuseStep ==
  ASSUME ListInv, isPlainList, listLoad # "failed", NEW c \in Controls, OrderOf(c) = OrderOf(controls),
         Reuse(c), savedField' = savedField
  PROVE  ListInv'
<1> DEFINE moved == SetTotalCount(c, controls.totalCount)
<1>1. controls.totalCount \in 0 .. MaxItems
  BY DEF ListInv, ListTypeOK, Controls
<1> DEFINE shown == [c EXCEPT !.field = allItemsOrder.field, !.reverse = allItemsOrder.reverse]
<1>2. /\ controls' = moved /\ listLoad' = "loaded" /\ pageMoved' = (moved.page # c.page)
      /\ listShown' = [for |-> shown, items |-> ItemsForPage(c, controls.totalCount)]
      /\ UNCHANGED <<isPlainList, count, fetches, fetched, allItemsOrder, crossed>>
  BY DEF Reuse
<1>3. /\ moved \in Controls /\ (moved.page = 1 \/ moved.page <= TotalPages(moved))
      /\ moved.page = c.page => Uncounted(moved) = Uncounted(c)
      /\ OrderOf(moved) = OrderOf(controls)
      /\ ItemsForPage(c, controls.totalCount) \in 0 .. MaxItems
  BY <1>1, CountIsSet, ItemsOfPage
<1>4. shown \in Controls
  BY DEF Controls, ListInv, ListTypeOK
<1>5. ASSUME fetches = {} PROVE shown = c
  <2>1. allItemsOrder.field = c.field /\ allItemsOrder.reverse = c.reverse
    BY <1>5 DEF ListInv, OrderIsKept, OrderOf
  <2> QED
    BY <2>1 DEF Controls
<1> HIDE DEF moved, shown
<1>6. ListTypeOK'
  BY <1>2, <1>3, <1>4 DEF ListInv, ListTypeOK
<1>7. ShownIsAsked' /\ PageInRange'
  BY <1>2, <1>3, <1>5 DEF ShownIsAsked, PageInRange, Uncounted
<1>8. OneFetch' /\ OrderIsKept'
  BY <1>2, <1>3 DEF ListInv, OneFetch, OrderIsKept
<1> QED
  BY <1>6, <1>7, <1>8 DEF ListInv

LEMMA AnswerStep ==
  ASSUME ListInv, FetchAnswered
  PROVE  ListInv'
<1>1. PICK f \in fetches :
        LET c == MadeFor(f)
            moved == SetTotalCount(controls, Found(c)) IN
        /\ fetches' = fetches \ {f}
        /\ allItemsOrder' = IF isPlainList THEN OrderOf(c) ELSE allItemsOrder
        /\ listShown' = [for |-> c, items |-> ItemsForPage(c, Found(c))]
        /\ controls' = moved
        /\ pageMoved' = (moved.page # controls.page)
        /\ listLoad' = "loaded"
        /\ UNCHANGED <<isPlainList, count, savedField, fetched, crossed>>
  BY DEF FetchAnswered
<1> DEFINE c == MadeFor(f)
           moved == SetTotalCount(controls, Found(c))
<1>2. c \in Controls /\ controls \in Controls
  BY DEF ListInv, ListTypeOK, MadeFor
<1>3. Found(c) \in 0 .. MaxItems
  <2>1. count \in 0 .. MaxItems /\ MaxItems \in Nat
    BY ListAssumption DEF ListInv, ListTypeOK
  <2>2. Found(c) = count \/ (count > 0 /\ Found(c) = 1)
    BY DEF Found
  <2> QED
    BY <2>1, <2>2
<1>4. /\ moved \in Controls /\ (moved.page = 1 \/ moved.page <= TotalPages(moved))
      /\ moved.page = controls.page => Uncounted(moved) = Uncounted(controls)
      /\ OrderOf(moved) = OrderOf(controls)
      /\ ItemsForPage(c, Found(c)) \in 0 .. MaxItems
  BY <1>2, <1>3, CountIsSet, ItemsOfPage
<1>5. isPlainList \/ ~crossed => c = controls
  BY DEF ListInv, OneFetch, MadeFor
<1>6. /\ fetches' = fetches \ {f} /\ listShown' = [for |-> c, items |-> ItemsForPage(c, Found(c))]
      /\ controls' = moved /\ pageMoved' = (moved.page # controls.page) /\ listLoad' = "loaded"
      /\ allItemsOrder' = (IF isPlainList THEN OrderOf(c) ELSE allItemsOrder)
      /\ UNCHANGED <<isPlainList, count, savedField, fetched, crossed>>
  BY <1>1
<1>a. OrderOf(c) \in [field : OrderFields, reverse : BOOLEAN]
  BY <1>2 DEF OrderOf, Controls
<1> HIDE DEF c, moved
<1>7. ListTypeOK'
  BY <1>2, <1>4, <1>6, <1>a DEF ListInv, ListTypeOK
<1>8. ShownIsAsked' /\ PageInRange'
  BY <1>4, <1>5, <1>6 DEF ShownIsAsked, PageInRange, Uncounted
<1>9. OneFetch' /\ OrderIsKept'
  BY <1>4, <1>5, <1>6 DEF ListInv, OneFetch, OrderIsKept
<1> QED
  BY <1>7, <1>8, <1>9 DEF ListInv

LEMMA ListStep == ListInv /\ [ListNext]_listVars => ListInv'
<1> SUFFICES ASSUME ListInv, [ListNext]_listVars PROVE ListInv'
  OBVIOUS
<1>0. controls \in Controls /\ savedField \in OrderFields
  BY DEF ListInv, ListTypeOK
<1>1. CASE UpdatePagination
  <2>1. PICK size \in PageSizes, p \in 1 .. MaxItems :
          LET c == SetPage(SetItemsPerPage(controls, size), p) IN
          IF isPlainList THEN Reuse(c) ELSE Fetch(c)
    BY <1>1 DEF UpdatePagination
  <2>2. /\ SetPage(SetItemsPerPage(controls, size), p) \in Controls
        /\ OrderOf(SetPage(SetItemsPerPage(controls, size), p)) = OrderOf(controls)
    <3>1. p \in Nat
      BY ListAssumption
    <3> QED
      BY <1>0, <3>1, SizeIsSet
  <2>3. savedField' = savedField /\ listLoad # "failed"
    BY <1>1 DEF UpdatePagination, Usable
  <2> QED
    BY <1>0, <2>1, <2>2, <2>3, ReuseStep, FetchStep
<1>2. CASE ToggleSorting
  BY <1>0, <1>2, OrderIsSet, FetchStep DEF ToggleSorting
<1>3. CASE UpdateSearch
  <2>1. PICK term \in {"", "term"} :
          Fetch(SetPage([controls EXCEPT !.searchTerm = term,
                                         !.field = IF term = "" THEN savedField ELSE "none"], 1))
    BY <1>3 DEF UpdateSearch
  <2>2. [controls EXCEPT !.searchTerm = term,
                         !.field = IF term = "" THEN savedField ELSE "none"] \in Controls
    BY <1>0 DEF Controls, OrderFields
  <2> QED
    BY <1>0, <1>3, <2>1, <2>2, PageIsSet, FetchStep DEF UpdateSearch
<1>4. CASE UpdateSelectedTags
  <2>1. [controls EXCEPT !.tags = ~@] \in Controls
    BY <1>0 DEF Controls
  <2> QED
    BY <1>0, <1>4, <2>1, PageIsSet, FetchStep DEF UpdateSelectedTags
<1>5. CASE UpdateItems
  <2>1. /\ fetched' \in 1 .. MaxFetches /\ count' \in 0 .. MaxItems
        /\ fetches' = fetches \union {[number |-> fetched', for |-> controls]}
        /\ listLoad' = "loading" /\ crossed' = (crossed \/ fetches # {})
        /\ UNCHANGED <<isPlainList, controls, savedField, allItemsOrder, listShown, pageMoved>>
    BY <1>5, ListAssumption DEF UpdateItems, ListInv, ListTypeOK
  <2>2. ~crossed' => ~crossed /\ fetches = {}
    BY <2>1, Zenon
  <2>3. ListTypeOK'
    BY <2>1 DEF ListInv, ListTypeOK
  <2>4. OneFetch'
    BY <2>1, <2>2 DEF OneFetch
  <2>5. OrderIsKept'
    BY <2>1 DEF OrderIsKept
  <2>6. ShownIsAsked' /\ PageInRange'
    BY <2>1 DEF ShownIsAsked, PageInRange
  <2> QED
    BY <2>3, <2>4, <2>5, <2>6 DEF ListInv
<1>6. CASE FetchAnswered
  BY <1>6, AnswerStep
<1>7. CASE FetchFailed
  BY <1>7 DEF FetchFailed, ListInv, ListTypeOK, OneFetch, OrderIsKept, ShownIsAsked,
               PageInRange
<1>8. CASE UNCHANGED listVars
  BY <1>8 DEF listVars, ListInv, ListTypeOK, OneFetch, OrderIsKept, ShownIsAsked, PageInRange
<1> QED
  BY <1>1, <1>2, <1>3, <1>4, <1>5, <1>6, <1>7, <1>8 DEF ListNext

LEMMA ListInitInv == ListInit => ListInv
<1> SUFFICES ASSUME ListInit PROVE ListInv
  OBVIOUS
<1>1. controls \in Controls /\ savedField \in OrderFields
  <2>1. PICK p \in 1 .. 2, s \in PageSizes :
          controls = [page |-> p, itemsPerPage |-> s, totalCount |-> 0, field |-> "created_at",
                      reverse |-> FALSE, searchTerm |-> "", tags |-> FALSE]
    BY DEF ListInit
  <2>2. p \in Nat \ {0} /\ 0 \in 0 .. MaxItems
    BY ListAssumption
  <2> QED
    BY <2>1, <2>2 DEF ListInit, Controls, OrderFields
<1>2. 0 \in 0 .. MaxItems /\ 1 \in 1 .. MaxFetches /\ 1 \in 0 .. MaxFetches
  BY ListAssumption
<1>3. /\ isPlainList \in BOOLEAN /\ count \in 0 .. MaxItems
      /\ fetches = {[number |-> 1, for |-> controls]} /\ fetched = 1
      /\ listShown = [for |-> controls, items |-> 0]
      /\ listLoad = "loading" /\ crossed = FALSE /\ pageMoved = FALSE
      /\ allItemsOrder = OrderOf(controls)
  BY DEF ListInit
<1>4. ListTypeOK
  <2>1. \A f \in fetches : f.number = 1 /\ f.for = controls
    BY <1>3
  <2>2. listShown.for = controls /\ listShown.items = 0
    BY <1>3
  <2> QED
    BY <1>1, <1>2, <1>3, <2>1, <2>2 DEF ListTypeOK, Controls, OrderOf
<1>5. OneFetch /\ OrderIsKept /\ ShownIsAsked /\ PageInRange
  BY <1>3 DEF OneFetch, OrderIsKept, ShownIsAsked, PageInRange
<1> QED
  BY <1>4, <1>5 DEF ListInv

(* A loaded list shows what its controls say, and a page that exists, after *)
(* any number of sorts, searches, deletions, answers and failures.          *)
THEOREM ListsShowWhatIsAsked == ListSpec => []ListTypeOK /\ []ShownIsAsked /\ []PageInRange
<1>1. ListInv => ListTypeOK /\ ShownIsAsked /\ PageInRange
  BY DEF ListInv
<1> QED
  BY <1>1, ListInitInv, ListStep, PTL DEF ListSpec

-----------------------------------------------------------------------------
(* Alerts.                                                                  *)

PageRequests == [number : 1 .. MaxAlertRequests, kind : {"save", "mute", "unmute", "delete"},
                 copy : Copies, done : BOOLEAN]

(* The requests that will store a new alert.                                *)
Creations == {r \in alertRequests : r.copy.id = 0 /\ ~r.done}

PageTypes ==
    /\ AlertPageTypeOK
    /\ alertRows \in Seq(Alerts) /\ IsFiniteSet(alertRequests)
    /\ alertEdits \in 0 .. MaxAlertEdits /\ sent \in 0 .. MaxAlertRequests

(* Alerts are stored by the requests of this page, or were before.          *)
RowsAreCounted ==
    \/ Len(alertRows) + Cardinality(Creations) <= sent
    \/ Len(alertRows) = 1 /\ Creations = {} /\ alertMode # "new"

(* Ids are those of stored alerts, once there must be one.                  *)
IdsAreRows ==
    /\ alertCopy.id \in 0 .. Len(alertRows)
    /\ alertMode \notin {"new", "broken"} => alertCopy.id # 0
    /\ \A r \in alertRequests :
          /\ r.copy.id \in 0 .. Len(alertRows)
          /\ r.kind # "save" \/ r.done => r.copy.id # 0
          /\ r.kind # "save" => alertMode # "new"

OneRequest == ~requestsCrossed => \A r, s \in alertRequests : r = s

(* What the answer that is awaited will make of the page's alert.           *)
Expected(r) ==
    IF ~r.done THEN alertCopy.alert ELSE Options(alertCopy.alert, r.kind = "mute")

CopyIsStored ==
    ~requestsCrossed =>
        /\ alertMode \in {"view", "edit"} /\ alertRequests = {} /\ ~unsaved =>
              alertCopy.alert = alertRows[alertCopy.id]
        /\ \A r \in alertRequests :
              /\ r.kind = "save" /\ r.done => r.copy.alert = alertRows[r.copy.id]
              /\ r.kind # "save" => r.copy.id = alertCopy.id
              /\ ~unsaved /\ (r.kind \in {"mute", "unmute"} \/ (r.kind = "delete" /\ ~r.done)) =>
                    Expected(r) = alertRows[r.copy.id]

(* Results are awaited for the query that is selected, and not during a     *)
(* save, which has the selected query and its column.  Clearing the query   *)
(* takes back neither.                                                      *)
ResultsAreOfQuery ==
    ~requestsCrossed /\ ~resultsCrossed =>
        /\ \A q \in resultRequests : alertCopy.alert.query \in {"none", q}
        /\ \A r \in alertRequests : r.kind = "save" =>
              /\ resultRequests = {}
              /\ alertCopy.alert.query \in {"none", r.copy.alert.query}
              /\ r.copy.alert.column = alertCopy.alert.column

AlertPageInv ==
    /\ PageTypes /\ RowsAreCounted /\ IdsAreRows /\ OneRequest /\ CopyIsStored
    /\ ResultsAreOfQuery /\ ColumnIsOfQuery

LEMMA CountedRows ==
  ASSUME PageTypes, RowsAreCounted
  PROVE  Len(alertRows) \in 0 .. MaxAlertRequests /\ DOMAIN alertRows = 1 .. Len(alertRows)
<1>1. Len(alertRows) \in Nat /\ DOMAIN alertRows = 1 .. Len(alertRows)
  BY DEF PageTypes
<1>2. IsFiniteSet(Creations)
  BY FS_Subset DEF PageTypes, Creations
<1>3. Cardinality(Creations) \in Nat
  BY <1>2, FS_CardinalityType
<1> QED
  BY <1>1, <1>3, AlertPageAssumption DEF PageTypes, RowsAreCounted

-----------------------------------------------------------------------------
(* The form.                                                                *)

Stored == PageTypes /\ RowsAreCounted /\ IdsAreRows /\ OneRequest /\ CopyIsStored
Shown == ResultsAreOfQuery /\ ColumnIsOfQuery

(* A step of the form either leaves the alert as it is or makes it unsaved. *)
LEMMA FormStep ==
  ASSUME Stored, UNCHANGED <<alertRows, alertRequests, sent, requestsCrossed>>,
         alertCopy' \in Copies, alertCopy'.id = alertCopy.id,
         pendingRearm' \in 0 .. 1, alertResult' \in MaybeQuery, resultRequests' \subseteq AlertQueries,
         alertEdits' \in 0 .. MaxAlertEdits, unsaved' \in BOOLEAN, resultsCrossed' \in BOOLEAN,
         unsaved' \/ (alertCopy' = alertCopy /\ unsaved' = unsaved),
         alertMode' \in {alertMode, "broken"} \/ {alertMode, alertMode'} \subseteq {"view", "edit"},
         alertMode # "broken"
  PROVE  Stored'
<1>1. PageTypes'
  <2>1. alertMode' \in {"new", "view", "edit", "left", "broken"}
    BY DEF Stored, PageTypes, AlertPageTypeOK
  <2>2. {unsaved', requestsCrossed', resultsCrossed'} \subseteq BOOLEAN
    BY DEF Stored, PageTypes, AlertPageTypeOK
  <2> QED
    BY <2>1, <2>2 DEF Stored, PageTypes, AlertPageTypeOK
<1>2. RowsAreCounted'
  BY DEF Stored, RowsAreCounted, Creations
<1>3. IdsAreRows' /\ OneRequest'
  BY DEF Stored, IdsAreRows, OneRequest
<1>4. CopyIsStored'
  BY DEF Stored, CopyIsStored, Expected
<1> QED
  BY <1>1, <1>2, <1>3, <1>4 DEF Stored

LEMMA CopyChanges ==
  ASSUME NEW c \in Copies
  PROVE  /\ c.id \in 0 .. MaxAlertRequests /\ c.alert \in Alerts
         /\ \A a \in Alerts : [c EXCEPT !.alert = a] \in Copies
BY DEF Copies

LEMMA NewAlert == New \in Alerts
<1>1. 0 \in 0 .. MaxAlertEdits /\ 0 \in 0 .. 1 /\ "none" \in MaybeQuery
  BY AlertPageAssumption DEF MaybeQuery
<1> QED
  BY <1>1 DEF New, Alerts

LEMMA AlertChanges ==
  ASSUME NEW a \in Alerts
  PROVE  /\ \A q \in MaybeQuery : [a EXCEPT !.query = q] \in Alerts /\ [a EXCEPT !.column = q] \in Alerts
         /\ \A n \in 0 .. MaxAlertEdits : [a EXCEPT !.value = n] \in Alerts
         /\ \A n \in 0 .. 1 : [a EXCEPT !.rearm = n] \in Alerts
         /\ \A b \in BOOLEAN : [a EXCEPT !.muted = b] \in Alerts
BY DEF Alerts

LEMMA FormKeepsInv ==
  ASSUME AlertPageInv, alertMode # "broken",
         \/ OnQuerySelected \/ OnQueryCleared \/ ResultArrives \/ ResultFails \/ Change
         \/ EditOrCancel \/ SaveWithoutQuery
  PROVE  AlertPageInv'
<1>0. /\ Stored /\ Shown /\ alertCopy \in Copies /\ alertCopy.alert \in Alerts
      /\ resultRequests \subseteq AlertQueries /\ alertResult \in MaybeQuery /\ pendingRearm \in 0 .. 1
      /\ alertEdits \in 0 .. MaxAlertEdits /\ MaxAlertEdits \in Nat
      /\ unsaved \in BOOLEAN /\ requestsCrossed \in BOOLEAN /\ resultsCrossed \in BOOLEAN
  BY CopyChanges, AlertPageAssumption DEF AlertPageInv, Stored, Shown, PageTypes, AlertPageTypeOK
<1>1. CASE OnQuerySelected
  <2>1. PICK q \in AlertQueries :
          /\ alertCopy' = [alertCopy EXCEPT !.alert.query = q]
          /\ resultRequests' = resultRequests \union {q}
    BY <1>1 DEF OnQuerySelected
  <2>2. /\ alertResult' = "none" /\ unsaved' = TRUE
        /\ resultsCrossed' = (resultsCrossed \/ resultRequests # {} \/ alertRequests # {})
        /\ alertEdits' \in 0 .. MaxAlertEdits
        /\ UNCHANGED <<alertMode, pendingRearm, alertRequests, alertRows, sent, requestsCrossed>>
    BY <1>0, <1>1 DEF OnQuerySelected
  <2>3. /\ alertCopy' \in Copies /\ alertCopy'.id = alertCopy.id /\ alertCopy'.alert.query = q
    BY <1>0, <2>1 DEF Copies, Alerts, MaybeQuery
  <2>4. Stored'
    <3>1. resultRequests' \subseteq AlertQueries /\ alertResult' \in MaybeQuery
      BY <1>0, <2>1, <2>2 DEF MaybeQuery
    <3> QED
      BY <1>0, <2>2, <2>3, <3>1, FormStep
  <2>5. ~resultsCrossed' => resultRequests = {} /\ alertRequests = {}
    BY <2>2, Zenon
  <2>6. Shown'
    BY <2>1, <2>2, <2>3, <2>5 DEF Shown, ResultsAreOfQuery, ColumnIsOfQuery
  <2> QED
    BY <2>4, <2>6 DEF Stored, Shown, AlertPageInv
<1>2. CASE ResultArrives
  <2>1. PICK q \in resultRequests :
          /\ resultRequests' = resultRequests \ {q} /\ alertResult' = q
          /\ alertCopy' = [alertCopy EXCEPT !.alert.column = ColumnOf(alertCopy.alert.column, q)]
          /\ unsaved' = (unsaved \/ ColumnOf(alertCopy.alert.column, q) # alertCopy.alert.column)
          /\ alertMode' = Rendered(alertMode)
          /\ UNCHANGED <<pendingRearm, alertRequests, alertRows, alertEdits, sent,
                         requestsCrossed, resultsCrossed>>
    BY <1>2 DEF ResultArrives
  <2>2. q \in MaybeQuery /\ ColumnOf(alertCopy.alert.column, q) = q
    BY <1>0 DEF MaybeQuery, ColumnOf
  <2>3. /\ alertCopy' \in Copies /\ alertCopy'.id = alertCopy.id /\ alertCopy'.alert.column = q
        /\ alertCopy'.alert.query = alertCopy.alert.query
    BY <1>0, <2>1, <2>2 DEF Copies, Alerts
  <2>4. unsaved' \/ (alertCopy' = alertCopy /\ unsaved' = unsaved)
    <3>1. CASE alertCopy.alert.column = q
      BY <1>0, <2>1, <2>2, <3>1 DEF Copies, Alerts
    <3>2. CASE alertCopy.alert.column # q
      BY <2>1, <2>2, <3>2
    <3> QED
      BY <3>1, <3>2
  <2>5. Stored'
    <3>1. resultRequests' \subseteq AlertQueries /\ alertResult' \in MaybeQuery /\ unsaved' \in BOOLEAN
      BY <1>0, <2>1, <2>2
    <3>2. alertMode' \in {alertMode, "broken"}
      BY <2>1 DEF Rendered
    <3> QED
      BY <1>0, <2>1, <2>3, <2>4, <3>1, <3>2, FormStep
  <2>6. Shown'
    <3>1. ResultsAreOfQuery'
      BY <1>0, <2>1, <2>3 DEF Shown, ResultsAreOfQuery
    <3>2. alertMode' # "broken" => alertCopy.alert.query # "none"
      BY <2>1 DEF Rendered
    <3>3. ColumnIsOfQuery'
      BY <1>0, <2>1, <2>3, <3>2 DEF Shown, ResultsAreOfQuery, ColumnIsOfQuery
    <3> QED
      BY <3>1, <3>3 DEF Shown
  <2> QED
    BY <2>5, <2>6 DEF Stored, Shown, AlertPageInv
<1>3. CASE ResultFails
  <2>1. PICK q \in resultRequests : resultRequests' = resultRequests \ {q}
    BY <1>3 DEF ResultFails
  <2>2. UNCHANGED <<alertMode, alertCopy, pendingRearm, alertResult, alertRequests, alertRows,
                    alertEdits, sent, unsaved, requestsCrossed, resultsCrossed>>
    BY <1>3 DEF ResultFails
  <2>3. Stored'
    BY <1>0, <2>1, <2>2, FormStep
  <2>4. Shown'
    BY <1>0, <2>1, <2>2 DEF Shown, ResultsAreOfQuery, ColumnIsOfQuery
  <2> QED
    BY <2>3, <2>4 DEF Stored, Shown, AlertPageInv
<1>4. CASE Change
  <2>1. /\ alertEdits' \in 0 .. MaxAlertEdits /\ unsaved' = TRUE
        /\ \/ alertCopy' = [alertCopy EXCEPT !.alert.value = alertEdits'] /\ UNCHANGED pendingRearm
           \/ pendingRearm' = 1 - pendingRearm /\ UNCHANGED alertCopy
        /\ UNCHANGED <<alertMode, alertResult, resultRequests, alertRequests, alertRows, sent,
                       requestsCrossed, resultsCrossed>>
    BY <1>0, <1>4 DEF Change
  <2>2. /\ alertCopy' \in Copies /\ alertCopy'.id = alertCopy.id
        /\ alertCopy'.alert.query = alertCopy.alert.query /\ alertCopy'.alert.column = alertCopy.alert.column
    BY <1>0, <2>1 DEF Copies, Alerts
  <2>3. pendingRearm' \in 0 .. 1
    BY <1>0, <2>1
  <2>4. Stored'
    BY <1>0, <2>1, <2>2, <2>3, FormStep
  <2>5. Shown'
    BY <1>0, <2>1, <2>2 DEF Shown, ResultsAreOfQuery, ColumnIsOfQuery
  <2> QED
    BY <2>4, <2>5 DEF Stored, Shown, AlertPageInv
<1>5. CASE EditOrCancel
  <2>1. /\ alertMode' = "broken" \/ {alertMode, alertMode'} \subseteq {"view", "edit"}
        /\ UNCHANGED <<alertCopy, pendingRearm, alertResult, resultRequests, alertRequests, alertRows,
                       alertEdits, sent, unsaved, requestsCrossed, resultsCrossed>>
    BY <1>5 DEF EditOrCancel, Rendered
  <2>2. Stored'
    BY <1>0, <2>1, FormStep
  <2>3. Shown'
    BY <1>0, <1>5, <2>1 DEF EditOrCancel, Shown, ResultsAreOfQuery, ColumnIsOfQuery
  <2> QED
    BY <2>2, <2>3 DEF Stored, Shown, AlertPageInv
<1>6. CASE OnQueryCleared
  <2>1. /\ alertCopy' = [alertCopy EXCEPT !.alert.query = "none"]
        /\ alertResult' = "none" /\ unsaved' = TRUE
        /\ UNCHANGED <<alertMode, pendingRearm, resultRequests, alertRequests, alertRows, alertEdits,
                       sent, requestsCrossed, resultsCrossed>>
    BY <1>6 DEF OnQueryCleared
  <2>2. /\ alertCopy' \in Copies /\ alertCopy'.id = alertCopy.id
        /\ alertCopy'.alert.query = "none" /\ alertCopy'.alert.column = alertCopy.alert.column
    BY <1>0, <2>1 DEF Copies, Alerts, MaybeQuery
  <2>3. alertResult' \in MaybeQuery
    BY <2>1 DEF MaybeQuery
  <2>4. Stored'
    BY <1>0, <2>1, <2>2, <2>3, FormStep
  <2>5. Shown'
    BY <1>0, <2>1, <2>2 DEF Shown, ResultsAreOfQuery, ColumnIsOfQuery
  <2> QED
    BY <2>4, <2>5 DEF Stored, Shown, AlertPageInv
<1>7. CASE SaveWithoutQuery
  <2>1. /\ alertCopy' = [alertCopy EXCEPT !.alert.rearm = pendingRearm] /\ unsaved' = TRUE
        /\ UNCHANGED <<alertMode, pendingRearm, alertResult, resultRequests, alertRequests, alertRows,
                       alertEdits, sent, requestsCrossed, resultsCrossed>>
    BY <1>7 DEF SaveWithoutQuery
  <2>2. /\ alertCopy' \in Copies /\ alertCopy'.id = alertCopy.id
        /\ alertCopy'.alert.query = alertCopy.alert.query /\ alertCopy'.alert.column = alertCopy.alert.column
    BY <1>0, <2>1 DEF Copies, Alerts
  <2>3. Stored'
    BY <1>0, <2>1, <2>2, FormStep
  <2>4. Shown'
    BY <1>0, <2>1, <2>2 DEF Shown, ResultsAreOfQuery, ColumnIsOfQuery
  <2> QED
    BY <2>3, <2>4 DEF Stored, Shown, AlertPageInv
<1> QED
  BY <1>1, <1>2, <1>3, <1>4, <1>5, <1>6, <1>7

-----------------------------------------------------------------------------
(* Requests.                                                                *)

LEMMA SendStep ==
  ASSUME Stored, alertMode # "broken", NEW kind \in {"save", "mute", "unmute", "delete"}, Send(kind),
         alertCopy' \in Copies, alertCopy'.id = alertCopy.id,
         kind = "save" \/ (alertMode \in {"view", "edit"} /\ alertCopy' = alertCopy),
         resultsCrossed' \in BOOLEAN,
         UNCHANGED <<alertMode, pendingRearm, alertResult, resultRequests, alertRows, alertEdits, unsaved>>
  PROVE  Stored'
<1> DEFINE r == [number |-> sent + 1, kind |-> kind, copy |-> alertCopy', done |-> FALSE]
<1>1. /\ sent' = sent + 1 /\ sent < MaxAlertRequests /\ alertRequests' = alertRequests \union {r}
      /\ requestsCrossed' = (requestsCrossed \/ alertRequests # {})
  BY DEF Send
<1>2. r \in PageRequests /\ sent \in 0 .. MaxAlertRequests /\ sent' \in 0 .. MaxAlertRequests
  BY <1>1, AlertPageAssumption DEF Stored, PageTypes, PageRequests
<1>3. r.copy = alertCopy' /\ r.copy.id = alertCopy.id /\ ~r.done /\ r.kind = kind
  OBVIOUS
<1> HIDE DEF r
<1>4. ~requestsCrossed' => ~requestsCrossed /\ alertRequests = {}
  BY <1>1, Zenon
<1>5. PageTypes'
  <2>1. IsFiniteSet(alertRequests')
    BY <1>1, FS_AddElement DEF Stored, PageTypes
  <2>2. alertRequests' \subseteq PageRequests
    BY <1>1, <1>2 DEF Stored, PageTypes, AlertPageTypeOK, PageRequests
  <2>3. {unsaved', requestsCrossed', resultsCrossed'} \subseteq BOOLEAN
    BY <1>1 DEF Stored, PageTypes, AlertPageTypeOK
  <2> QED
    BY <1>2, <2>1, <2>2, <2>3 DEF Stored, PageTypes, AlertPageTypeOK, PageRequests
<1>6. RowsAreCounted'
  <2>1. Creations' = IF alertCopy.id = 0 THEN Creations \union {r} ELSE Creations
    BY <1>1, <1>3 DEF Creations
  <2>2. IsFiniteSet(Creations) /\ Cardinality(Creations) \in Nat
    BY FS_Subset, FS_CardinalityType DEF Stored, PageTypes, Creations
  <2>3. Cardinality(Creations \union {r}) \in Nat
        /\ Cardinality(Creations \union {r}) <= Cardinality(Creations) + 1
    BY <2>2, OneMore
  <2>4. Len(alertRows) \in Nat
    BY DEF Stored, PageTypes
  <2>5. CASE alertMode # "new"
    BY <1>1, <1>2, <2>1, <2>2, <2>4, <2>5 DEF Stored, RowsAreCounted, IdsAreRows
  <2>6. CASE alertMode = "new"
    BY <1>1, <1>2, <2>1, <2>2, <2>3, <2>4, <2>6 DEF Stored, RowsAreCounted
  <2> QED
    BY <2>5, <2>6
<1>7. IdsAreRows' /\ OneRequest'
  BY <1>1, <1>3, <1>4 DEF Stored, IdsAreRows, OneRequest
<1>8. CopyIsStored'
  <2> SUFFICES ASSUME ~requestsCrossed' PROVE CopyIsStored'
    BY DEF CopyIsStored
  <2>1. alertRequests' = {r} /\ ~requestsCrossed /\ alertRequests = {}
    BY <1>1, <1>4
  <2>2. CASE kind = "save"
    BY <1>3, <2>1, <2>2 DEF CopyIsStored
  <2>3. CASE kind # "save"
    <3>1. alertMode \in {"view", "edit"} /\ alertCopy' = alertCopy
      BY <2>3
    <3>2. ~unsaved => alertCopy.alert = alertRows[alertCopy.id]
      BY <2>1, <3>1 DEF Stored, CopyIsStored
    <3> QED
      BY <1>3, <2>1, <2>3, <3>1, <3>2 DEF CopyIsStored, Expected
  <2> QED
    BY <2>2, <2>3
<1> QED
  BY <1>5, <1>6, <1>7, <1>8 DEF Stored

LEMMA SendingKeepsInv ==
  ASSUME AlertPageInv, alertMode # "broken", SaveAlert \/ MuteOrDelete
  PROVE  AlertPageInv'
<1>0. /\ Stored /\ Shown /\ alertCopy \in Copies /\ alertCopy.alert \in Alerts
      /\ pendingRearm \in 0 .. 1
      /\ unsaved \in BOOLEAN /\ requestsCrossed \in BOOLEAN /\ resultsCrossed \in BOOLEAN
  BY CopyChanges DEF AlertPageInv, Stored, Shown, PageTypes, AlertPageTypeOK
<1>1. CASE SaveAlert
  <2>1. /\ alertCopy' = [alertCopy EXCEPT !.alert.rearm = pendingRearm] /\ Send("save")
        /\ resultsCrossed' = (resultsCrossed \/ resultRequests # {})
        /\ UNCHANGED <<alertMode, pendingRearm, alertResult, resultRequests, alertRows, alertEdits, unsaved>>
    BY <1>1 DEF SaveAlert
  <2>2. /\ alertCopy' \in Copies /\ alertCopy'.id = alertCopy.id
        /\ alertCopy'.alert.query = alertCopy.alert.query /\ alertCopy'.alert.column = alertCopy.alert.column
    BY <1>0, <2>1 DEF Copies, Alerts
  <2>3. Stored'
    BY <1>0, <2>1, <2>2, SendStep
  <2>4. /\ ~resultsCrossed' => ~resultsCrossed /\ resultRequests = {}
        /\ ~requestsCrossed' => ~requestsCrossed /\ alertRequests = {}
    BY <2>1, Zenon DEF Send
  <2>5. \A r \in alertRequests' : r \in alertRequests \/ r.copy = alertCopy'
    BY <2>1 DEF Send
  <2>6. Shown'
    BY <1>0, <2>1, <2>2, <2>4, <2>5 DEF Shown, ResultsAreOfQuery, ColumnIsOfQuery
  <2> QED
    BY <2>3, <2>6 DEF Stored, Shown, AlertPageInv
<1>2. CASE MuteOrDelete
  <2>1. PICK kind \in {"mute", "unmute", "delete"} : Send(kind)
    BY <1>2 DEF MuteOrDelete
  <2>2. /\ alertMode \in {"view", "edit"} /\ UNCHANGED alertCopy
        /\ UNCHANGED <<alertMode, pendingRearm, alertResult, resultRequests, alertRows, alertEdits,
                       unsaved, resultsCrossed>>
    BY <1>2 DEF MuteOrDelete
  <2>3. Stored'
    BY <1>0, <2>1, <2>2, SendStep
  <2>4. ~requestsCrossed' => ~requestsCrossed /\ alertRequests = {}
    BY <2>1, Zenon DEF Send
  <2>5. \A r \in alertRequests' : r \in alertRequests \/ r.kind = kind
    BY <2>1 DEF Send
  <2>6. Shown'
    BY <1>0, <2>1, <2>2, <2>4, <2>5 DEF Shown, ResultsAreOfQuery, ColumnIsOfQuery
  <2> QED
    BY <2>3, <2>6 DEF Stored, Shown, AlertPageInv
<1> QED
  BY <1>1, <1>2

-----------------------------------------------------------------------------
(* The server. *)

(* A request that is done is no creation, and no other one becomes one.     *)
LEMMA CreationsEnd ==
  ASSUME Stored, NEW r \in alertRequests, NEW s,
         alertRequests' = alertRequests \ {r} \/ (alertRequests' = (alertRequests \ {r}) \union {s} /\ s.done)
  PROVE  /\ IsFiniteSet(alertRequests') /\ Creations' = Creations \ {r}
         /\ Cardinality(Creations) \in Nat
         /\ Cardinality(Creations') = IF r \in Creations THEN Cardinality(Creations) - 1
                                      ELSE Cardinality(Creations)
<1>1. IsFiniteSet(alertRequests) /\ IsFiniteSet(alertRequests \ {r})
      /\ IsFiniteSet((alertRequests \ {r}) \union {s})
  BY FS_RemoveElement, FS_AddElement DEF Stored, PageTypes
<1>2. Creations' = Creations \ {r}
  BY DEF Creations
<1>3. IsFiniteSet(Creations)
  BY <1>1, FS_Subset DEF Creations
<1> QED
  BY <1>1, <1>2, <1>3, FS_RemoveElement, FS_CardinalityType

LEMMA CreateStep ==
  ASSUME Stored, NEW r \in alertRequests, ~r.done, r.kind = "save", r.copy.id = 0, Carried(r),
         UNCHANGED <<alertMode, alertCopy, pendingRearm, alertResult, resultRequests, alertEdits,
                     sent, unsaved, requestsCrossed, resultsCrossed>>
  PROVE  Stored'
<1> DEFINE s == [r EXCEPT !.done = TRUE, !.copy.id = Len(alertRows')]
<1>1. alertRows' = Append(alertRows, r.copy.alert) /\ alertRequests' = (alertRequests \ {r}) \union {s}
  BY DEF Carried
<1>2. r \in PageRequests /\ r.copy \in Copies /\ r.copy.alert \in Alerts /\ Len(alertRows) \in Nat
      /\ alertRows \in Seq(Alerts)
  BY DEF Stored, PageTypes, AlertPageTypeOK, PageRequests, Copies
<1>3. /\ alertRows' \in Seq(Alerts) /\ Len(alertRows') = Len(alertRows) + 1
      /\ alertRows'[Len(alertRows')] = r.copy.alert
      /\ \A i \in 1 .. Len(alertRows) : alertRows'[i] = alertRows[i]
      /\ DOMAIN alertRows' = 1 .. Len(alertRows')
  BY <1>1, <1>2
<1>4. s.done /\ s.kind = "save" /\ s.number = r.number /\ s.copy.id = Len(alertRows')
      /\ s.copy.alert = r.copy.alert
  BY <1>2 DEF PageRequests, Copies
<1>5. RowsAreCounted' /\ IsFiniteSet(alertRequests')
  <2>1. r \in Creations
    BY DEF Creations
  <2>2. /\ IsFiniteSet(alertRequests') /\ Cardinality(Creations) \in Nat
        /\ Cardinality(Creations') = Cardinality(Creations) - 1
    BY <1>1, <1>4, <2>1, CreationsEnd
  <2> QED
    BY <1>2, <1>3, <2>1, <2>2 DEF Stored, PageTypes, RowsAreCounted
<1>6. Len(alertRows') \in 0 .. MaxAlertRequests
  <2>1. Cardinality(Creations') \in Nat /\ (Len(alertRows') + Cardinality(Creations') <= sent \/ Len(alertRows') = 1)
    <3>1. IsFiniteSet(Creations')
      BY <1>5, FS_Subset DEF Creations
    <3> QED
      BY <1>5, <3>1, FS_CardinalityType DEF RowsAreCounted
  <2> QED
    BY <1>2, <1>3, <2>1, AlertPageAssumption DEF Stored, PageTypes
<1>7. PageTypes'
  <2>1. s \in PageRequests
    BY <1>2, <1>6 DEF PageRequests, Copies
  <2>2. alertRequests' \subseteq PageRequests
    BY <1>1, <2>1 DEF Stored, PageTypes, AlertPageTypeOK, PageRequests
  <2>3. \A id \in DOMAIN alertRows' : alertRows'[id] \in Alerts
    BY <1>3
  <2>4. {unsaved', requestsCrossed', resultsCrossed'} \subseteq BOOLEAN
    BY DEF Stored, PageTypes, AlertPageTypeOK
  <2> QED
    BY <1>3, <1>5, <2>2, <2>3, <2>4 DEF Stored, PageTypes, AlertPageTypeOK, PageRequests
<1>8. IdsAreRows'
  <2> HIDE DEF s
  <2> QED
    BY <1>1, <1>2, <1>3, <1>4 DEF Stored, IdsAreRows
<1>9. OneRequest' /\ CopyIsStored'
  <2> HIDE DEF s
  <2>1. ~requestsCrossed => alertRequests' = {s}
    BY <1>1 DEF Stored, OneRequest
  <2> QED
    BY <1>3, <1>4, <2>1 DEF OneRequest, CopyIsStored
<1> QED
  BY <1>5, <1>7, <1>8, <1>9 DEF Stored

LEMMA UpdateStep ==
  ASSUME Stored, NEW r \in alertRequests, ~r.done, r.kind # "save" \/ r.copy.id # 0, Carried(r),
         UNCHANGED <<alertMode, alertCopy, pendingRearm, alertResult, resultRequests, alertEdits,
                     sent, unsaved, requestsCrossed, resultsCrossed>>
  PROVE  Stored'
<1> DEFINE s == [r EXCEPT !.done = TRUE]
           id == r.copy.id
<1>1. /\ r \in PageRequests /\ r.copy \in Copies /\ r.copy.alert \in Alerts /\ Len(alertRows) \in Nat
      /\ alertRows \in Seq(Alerts) /\ DOMAIN alertRows = 1 .. Len(alertRows)
      /\ id \in 1 .. Len(alertRows) /\ alertRows[id] \in Alerts
  <2>1. id \in 0 .. Len(alertRows) /\ id # 0
    BY DEF Stored, IdsAreRows
  <2> QED
    BY <2>1 DEF Stored, PageTypes, AlertPageTypeOK, PageRequests, Copies
<1>2. PICK changed :
        /\ alertRows' = [alertRows EXCEPT ![id] = changed]
        /\ r.kind = "save" => changed = r.copy.alert
        /\ r.kind = "mute" => changed = Options(alertRows[id], TRUE)
        /\ r.kind = "unmute" => changed = Options(alertRows[id], FALSE)
        /\ r.kind = "delete" => changed = Deleted
  BY <1>1 DEF Carried, Options, PageRequests
<1>3. changed \in Alerts
  <2>1. CASE r.kind \in {"mute", "unmute"}
    BY <1>1, <1>2, <2>1, AlertChanges DEF Options
  <2>2. CASE r.kind = "delete"
    BY <1>2, <2>2, NewAlert DEF Deleted
  <2>3. CASE r.kind = "save"
    BY <1>1, <1>2, <2>3
  <2> QED
    BY <1>1, <2>1, <2>2, <2>3 DEF PageRequests
<1>4. alertRequests' = (alertRequests \ {r}) \union {s}
  BY DEF Carried
<1>5. s.done /\ s.kind = r.kind /\ s.number = r.number /\ s.copy = r.copy /\ s \in PageRequests
  BY <1>1 DEF PageRequests
<1>6. /\ alertRows' \in Seq(Alerts) /\ Len(alertRows') = Len(alertRows) /\ alertRows'[id] = changed
      /\ DOMAIN alertRows' = 1 .. Len(alertRows')
  BY <1>1, <1>2, <1>3, ExceptSeq
<1>7. RowsAreCounted' /\ IsFiniteSet(alertRequests')
  <2>1. r \notin Creations
    BY <1>1 DEF Creations
  <2>2. IsFiniteSet(alertRequests') /\ Creations' = Creations
    <3>1. IsFiniteSet(alertRequests') /\ Creations' = Creations \ {r}
      BY <1>4, <1>5, CreationsEnd
    <3> QED
      BY <2>1, <3>1
  <2> QED
    BY <1>6, <2>2 DEF Stored, RowsAreCounted
<1>8. PageTypes'
  <2>1. alertRequests' \subseteq PageRequests
    BY <1>4, <1>5 DEF Stored, PageTypes, AlertPageTypeOK, PageRequests
  <2>2. \A i \in DOMAIN alertRows' : alertRows'[i] \in Alerts
    BY <1>6
  <2>3. {unsaved', requestsCrossed', resultsCrossed'} \subseteq BOOLEAN
    BY DEF Stored, PageTypes, AlertPageTypeOK
  <2> QED
    BY <1>6, <1>7, <2>1, <2>2, <2>3 DEF Stored, PageTypes, AlertPageTypeOK, PageRequests
<1> HIDE DEF s
<1>9. IdsAreRows'
  BY <1>1, <1>4, <1>5, <1>6 DEF Stored, IdsAreRows
<1>10. OneRequest' /\ CopyIsStored'
  <2> SUFFICES ASSUME ~requestsCrossed PROVE OneRequest' /\ CopyIsStored'
    BY DEF OneRequest, CopyIsStored
  <2>1. alertRequests' = {s}
    BY <1>4 DEF Stored, OneRequest
  <2>2. r.kind = "save" => r.copy.alert = alertRows'[id]
    BY <1>2, <1>6
  <2>3. ASSUME r.kind # "save" PROVE id = alertCopy.id
    BY <2>3 DEF Stored, CopyIsStored
  <2>4. ASSUME ~unsaved, r.kind \in {"mute", "unmute"}
        PROVE  Options(alertCopy.alert, r.kind = "mute") = alertRows'[id]
    <3>1. alertCopy.alert = alertRows[id]
      BY <2>4 DEF Stored, CopyIsStored, Expected
    <3> QED
      BY <1>2, <1>6, <2>4, <3>1
  <2> QED
    BY <1>5, <2>1, <2>2, <2>3, <2>4 DEF OneRequest, CopyIsStored, Expected
<1> QED
  BY <1>7, <1>8, <1>9, <1>10 DEF Stored

LEMMA CarryOutKeepsInv == AlertPageInv /\ CarryOutAlert => AlertPageInv'
<1> SUFFICES ASSUME AlertPageInv, CarryOutAlert PROVE AlertPageInv'
  OBVIOUS
<1>1. PICK r \in alertRequests :
        /\ ~r.done /\ Carried(r)
        /\ UNCHANGED <<alertMode, alertCopy, pendingRearm, alertResult, resultRequests, alertEdits,
                       sent, unsaved, requestsCrossed, resultsCrossed>>
  BY DEF CarryOutAlert
<1>2. Stored /\ Shown
  BY DEF AlertPageInv, Stored, Shown
<1>3. Stored'
  BY <1>1, <1>2, CreateStep, UpdateStep
<1>4. \A s \in alertRequests' : \E q \in alertRequests :
         s.kind = q.kind /\ s.copy.alert = q.copy.alert
  <2>1. r \in PageRequests /\ r.copy \in Copies
    BY <1>2 DEF Stored, PageTypes, AlertPageTypeOK, PageRequests
  <2> DEFINE created == [r EXCEPT !.done = TRUE, !.copy.id = Len(alertRows')]
             updated == [r EXCEPT !.done = TRUE]
  <2>2. /\ created.kind = r.kind /\ created.copy.alert = r.copy.alert
        /\ updated.kind = r.kind /\ updated.copy.alert = r.copy.alert
    BY <2>1 DEF PageRequests, Copies
  <2>3. alertRequests' \subseteq alertRequests \union {created, updated}
    BY <1>1 DEF Carried
  <2> QED
    BY <2>2, <2>3
<1>5. Shown'
  BY <1>1, <1>2, <1>4 DEF Shown, ResultsAreOfQuery, ColumnIsOfQuery
<1> QED
  BY <1>3, <1>5 DEF AlertPageInv, Stored, Shown

(* The answers. *)
LEMMA AnswerKeepsStored ==
  ASSUME Stored, NEW r \in alertRequests, alertRequests' = alertRequests \ {r},
         alertMode' \in {"view", "edit", "left"} \/ alertMode' = alertMode,
         unsaved' \in BOOLEAN, alertCopy' \in Copies,
         alertCopy'.id \in 0 .. Len(alertRows), alertMode' # "new" => alertCopy'.id # 0,
         alertMode' = "new" => alertMode = "new",
         requestsCrossed => requestsCrossed', requestsCrossed' \in BOOLEAN,
         ~requestsCrossed' /\ alertMode' \in {"view", "edit"} /\ ~unsaved' =>
            alertCopy'.alert = alertRows[alertCopy'.id],
         UNCHANGED <<pendingRearm, alertResult, resultRequests, alertRows, alertEdits, sent,
                     resultsCrossed>>
  PROVE  Stored'
<1>1. /\ IsFiniteSet(alertRequests') /\ Creations' = Creations \ {r}
      /\ Cardinality(Creations) \in Nat
      /\ Cardinality(Creations') = IF r \in Creations THEN Cardinality(Creations) - 1
                                   ELSE Cardinality(Creations)
  BY CreationsEnd
<1>2. PageTypes'
  <2>1. {unsaved', requestsCrossed', resultsCrossed'} \subseteq BOOLEAN
    BY DEF Stored, PageTypes, AlertPageTypeOK
  <2> QED
    BY <1>1, <2>1 DEF Stored, PageTypes, AlertPageTypeOK
<1>3. RowsAreCounted'
  <2>1. Len(alertRows) \in Nat /\ sent \in Nat
    BY DEF Stored, PageTypes
  <2>2. CASE Len(alertRows) + Cardinality(Creations) <= sent
    BY <1>1, <2>1, <2>2 DEF RowsAreCounted
  <2>3. CASE Len(alertRows) = 1 /\ Creations = {} /\ alertMode # "new"
    BY <1>1, <2>3 DEF RowsAreCounted
  <2> QED
    BY <2>2, <2>3 DEF Stored, RowsAreCounted
<1>4. IdsAreRows'
  BY DEF Stored, IdsAreRows
<1>5. OneRequest' /\ CopyIsStored'
  <2> SUFFICES ASSUME ~requestsCrossed' PROVE OneRequest' /\ CopyIsStored'
    BY DEF OneRequest, CopyIsStored
  <2>1. ~requestsCrossed /\ alertRequests' = {}
    BY DEF Stored, OneRequest
  <2> QED
    BY <2>1 DEF OneRequest, CopyIsStored
<1> QED
  BY <1>1, <1>2, <1>3, <1>4, <1>5 DEF Stored

LEMMA AnswersKeepInv ==
  ASSUME AlertPageInv, AnswerAlert \/ AlertRequestFails, alertMode \notin {"left", "broken"}
  PROVE  AlertPageInv'
<1>0. /\ Stored /\ Shown /\ alertCopy \in Copies /\ alertCopy.alert \in Alerts
      /\ alertCopy.id \in 0 .. Len(alertRows)
      /\ unsaved \in BOOLEAN /\ requestsCrossed \in BOOLEAN /\ resultsCrossed \in BOOLEAN
      /\ alertMode \in {"new", "view", "edit"}
  BY CopyChanges DEF AlertPageInv, Stored, Shown, PageTypes, AlertPageTypeOK, IdsAreRows
<1>1. CASE AnswerAlert
  <2>1. PICK r \in alertRequests :
          /\ r.done /\ alertRequests' = alertRequests \ {r}
          /\ \/ r.kind = "save" /\ alertCopy' = r.copy /\ alertMode' = "view" /\ unsaved' = FALSE
             \/ /\ r.kind \in {"mute", "unmute"}
                /\ alertCopy' = [alertCopy EXCEPT !.alert = Options(@, r.kind = "mute")]
                /\ UNCHANGED <<alertMode, unsaved>>
             \/ r.kind = "delete" /\ alertMode' = "left" /\ UNCHANGED <<alertCopy, unsaved>>
          /\ UNCHANGED <<pendingRearm, alertResult, resultRequests, alertRows, alertEdits, sent,
                         requestsCrossed, resultsCrossed>>
    BY <1>1 DEF AnswerAlert
  <2>2. r \in PageRequests /\ r.copy \in Copies /\ r.copy.id \in 0 .. Len(alertRows) /\ r.copy.id # 0
    BY <1>0, <2>1 DEF Stored, PageTypes, AlertPageTypeOK, PageRequests, IdsAreRows
  <2>3. CASE r.kind = "save"
    <3>1. alertCopy' = r.copy /\ alertMode' = "view" /\ unsaved' = FALSE
      BY <2>1, <2>3
    <3>2. ~requestsCrossed => r.copy.alert = alertRows[r.copy.id]
      BY <1>0, <2>1, <2>3 DEF Stored, CopyIsStored
    <3>3. Stored'
      BY <1>0, <2>1, <2>2, <3>1, <3>2, AnswerKeepsStored
    <3>4. Shown'
      BY <1>0, <2>1, <2>3, <3>1 DEF Stored, OneRequest, Shown, ResultsAreOfQuery, ColumnIsOfQuery
    <3> QED
      BY <3>3, <3>4 DEF AlertPageInv, Stored, Shown
  <2>4. CASE r.kind \in {"mute", "unmute"}
    <3> DEFINE a == Options(alertCopy.alert, r.kind = "mute")
    <3>1. alertCopy' = [alertCopy EXCEPT !.alert = a] /\ UNCHANGED <<alertMode, unsaved>>
      BY <2>1, <2>4
    <3>2. a \in Alerts /\ a.query = alertCopy.alert.query /\ a.column = alertCopy.alert.column
      BY <1>0 DEF Options, Alerts
    <3>3. alertCopy' \in Copies /\ alertCopy'.id = alertCopy.id /\ alertCopy'.alert = a
      BY <1>0, <3>1, <3>2 DEF Copies
    <3>4. ~requestsCrossed /\ ~unsaved => a = alertRows[alertCopy.id]
      BY <1>0, <2>1, <2>4 DEF Stored, CopyIsStored, Expected
    <3> HIDE DEF a
    <3>5. Stored'
      <4>1. alertMode' # "new" => alertCopy'.id # 0
        BY <1>0, <3>1, <3>3 DEF Stored, IdsAreRows
      <4> QED
        BY <1>0, <2>1, <3>1, <3>3, <3>4, <4>1, AnswerKeepsStored
    <3>6. Shown'
      BY <1>0, <2>1, <3>1, <3>2, <3>3 DEF Shown, ResultsAreOfQuery, ColumnIsOfQuery
    <3> QED
      BY <3>5, <3>6 DEF AlertPageInv, Stored, Shown
  <2>5. CASE r.kind = "delete"
    <3>1. alertMode' = "left" /\ UNCHANGED <<alertCopy, unsaved>>
      BY <2>1, <2>5
    <3>2. alertCopy.id # 0
      BY <1>0, <2>1, <2>2, <2>5 DEF Stored, IdsAreRows
    <3>3. Stored'
      BY <1>0, <2>1, <3>1, <3>2, AnswerKeepsStored
    <3>4. Shown'
      BY <1>0, <2>1, <3>1 DEF Shown, ResultsAreOfQuery, ColumnIsOfQuery
    <3> QED
      BY <3>3, <3>4 DEF AlertPageInv, Stored, Shown
  <2> QED
    BY <2>1, <2>3, <2>4, <2>5
<1>2. CASE AlertRequestFails
  <2>1. PICK r \in alertRequests :
          /\ alertRequests' = alertRequests \ {r}
          /\ requestsCrossed' = (requestsCrossed \/ r.done)
          /\ unsaved' = (unsaved \/ r.kind = "save")
    BY <1>2 DEF AlertRequestFails
  <2>2. UNCHANGED <<alertMode, alertCopy, pendingRearm, alertResult, resultRequests, alertRows,
                    alertEdits, sent, resultsCrossed>>
    BY <1>2 DEF AlertRequestFails
  <2>3. r \in PageRequests /\ r.done \in BOOLEAN
    BY <1>0 DEF Stored, PageTypes, AlertPageTypeOK, PageRequests
  <2>4. ~requestsCrossed' /\ ~unsaved' =>
           ~requestsCrossed /\ ~r.done /\ ~unsaved /\ r.kind \in {"mute", "unmute", "delete"}
    BY <1>0, <2>1, <2>3 DEF PageRequests
  <2>5. ~requestsCrossed' /\ ~unsaved' => alertCopy.alert = alertRows[alertCopy.id]
    BY <1>0, <2>1, <2>4 DEF Stored, CopyIsStored, Expected
  <2>6. Stored'
    <3>1. alertMode' # "new" => alertCopy'.id # 0
      BY <1>0, <2>2 DEF Stored, IdsAreRows
    <3>2. requestsCrossed' \in BOOLEAN /\ unsaved' \in BOOLEAN /\ (requestsCrossed => requestsCrossed')
      BY <1>0, <2>1, <2>3
    <3> QED
      BY <1>0, <2>1, <2>2, <2>5, <3>1, <3>2, AnswerKeepsStored
  <2>7. Shown'
    <3>1. requestsCrossed => requestsCrossed'
      BY <1>0, <2>1, <2>3
    <3> QED
      BY <1>0, <2>1, <2>2, <3>1 DEF Shown, ResultsAreOfQuery, ColumnIsOfQuery
  <2> QED
    BY <2>6, <2>7 DEF AlertPageInv, Stored, Shown
<1> QED
  BY <1>1, <1>2

-----------------------------------------------------------------------------

LEMMA AlertPageInitInv == AlertPageInit => AlertPageInv
<1> SUFFICES ASSUME AlertPageInit PROVE AlertPageInv
  OBVIOUS
<1>1. /\ alertRequests = {} /\ alertEdits = 0 /\ sent = 0 /\ pendingRearm = 0 /\ alertResult = "none"
      /\ unsaved = FALSE /\ requestsCrossed = FALSE /\ resultsCrossed = FALSE
      /\ resultRequests = {alertCopy.alert.query} \ {"none"}
  BY DEF AlertPageInit
<1>2. \/ alertMode = "new" /\ alertRows = <<>> /\ alertCopy = [id |-> 0, alert |-> New]
      \/ /\ alertMode \in {"view", "edit"} /\ alertCopy = [id |-> 1, alert |-> alertRows[1]]
         /\ \E a \in Alerts : alertRows = <<a>>
  <2>1. ASSUME NEW q \in AlertQueries, NEW c \in AlertQueries
        PROVE  [New EXCEPT !.query = q, !.column = c] \in Alerts
    BY NewAlert DEF Alerts, MaybeQuery
  <2> QED
    BY <2>1 DEF AlertPageInit
<1>3. /\ alertCopy \in Copies /\ alertRows \in Seq(Alerts) /\ alertCopy.id = Len(alertRows)
      /\ Len(alertRows) \in {0, 1} /\ (Len(alertRows) = 0 <=> alertMode = "new")
      /\ alertMode # "new" => alertCopy.alert = alertRows[alertCopy.id]
  <2>1. 0 \in 0 .. MaxAlertRequests /\ 1 \in 0 .. MaxAlertRequests
    BY AlertPageAssumption
  <2>2. CASE alertMode = "new"
    BY <1>2, <2>1, <2>2, NewAlert DEF Copies
  <2>3. CASE alertMode # "new"
    <3>1. PICK a \in Alerts : alertRows = <<a>> /\ alertCopy = [id |-> 1, alert |-> alertRows[1]]
      BY <1>2, <2>3
    <3> QED
      BY <2>1, <2>3, <3>1 DEF Copies
  <2> QED
    BY <2>2, <2>3
<1>4. alertMode \in {"new", "view", "edit"}
  BY <1>2
<1>5. PageTypes
  <2>1. alertCopy.alert.query \in MaybeQuery
    BY <1>3 DEF Copies, Alerts
  <2>2. resultRequests \subseteq AlertQueries /\ alertResult \in MaybeQuery
    BY <1>1, <2>1 DEF MaybeQuery
  <2>3. {unsaved, requestsCrossed, resultsCrossed} \subseteq BOOLEAN
    BY <1>1
  <2>4. IsFiniteSet(alertRequests)
    BY <1>1, FS_EmptySet
  <2>5. alertEdits \in 0 .. MaxAlertEdits /\ sent \in 0 .. MaxAlertRequests /\ pendingRearm \in 0 .. 1
    BY <1>1, AlertPageAssumption
  <2>6. \A id \in DOMAIN alertRows : alertRows[id] \in Alerts
    BY <1>3
  <2> QED
    BY <1>1, <1>3, <1>4, <2>2, <2>3, <2>4, <2>5, <2>6 DEF PageTypes, AlertPageTypeOK
<1>6. RowsAreCounted
  <2>1. Creations = {} /\ Cardinality(Creations) = 0
    BY <1>1, FS_EmptySet DEF Creations
  <2> QED
    BY <1>1, <1>3, <2>1 DEF RowsAreCounted
<1>7. IdsAreRows /\ OneRequest /\ CopyIsStored /\ ColumnIsOfQuery /\ ResultsAreOfQuery
  BY <1>1, <1>3, <1>4 DEF IdsAreRows, OneRequest, CopyIsStored, ColumnIsOfQuery, ResultsAreOfQuery
<1> QED
  BY <1>5, <1>6, <1>7 DEF AlertPageInv

LEMMA AlertPageStep == AlertPageInv /\ [AlertPageNext]_alertVars => AlertPageInv'
<1> SUFFICES ASSUME AlertPageInv, [AlertPageNext]_alertVars PROVE AlertPageInv'
  OBVIOUS
<1>1. CASE UNCHANGED alertVars
  <2>1. Stored /\ Shown
    BY DEF AlertPageInv, Stored, Shown
  <2>2. PageTypes' /\ RowsAreCounted' /\ IdsAreRows'
    BY <1>1, <2>1 DEF alertVars, Stored, PageTypes, AlertPageTypeOK, RowsAreCounted, Creations, IdsAreRows
  <2>3. OneRequest' /\ CopyIsStored' /\ ResultsAreOfQuery' /\ ColumnIsOfQuery'
    BY <1>1, <2>1 DEF alertVars, Stored, Shown, OneRequest, CopyIsStored, Expected, ResultsAreOfQuery,
                      ColumnIsOfQuery
  <2> QED
    BY <2>2, <2>3 DEF AlertPageInv
<1>2. CASE AlertPageNext
  BY <1>2, FormKeepsInv, SendingKeepsInv, CarryOutKeepsInv, AnswersKeepInv DEF AlertPageNext
<1> QED
  BY <1>1, <1>2

(* The page shows the alert that is stored, and a result of its query with  *)
(* its column, in every order of edits, requests, answers and failures, for *)
(* any number of them, save for the crossings the properties name.          *)
THEOREM AlertPageAgrees ==
  AlertPageSpec => []AlertPageTypeOK /\ []AlertIsAsStored /\ []ColumnIsOfQuery
<1>1. AlertPageInv => AlertPageTypeOK /\ AlertIsAsStored /\ ColumnIsOfQuery
  BY DEF AlertPageInv, PageTypes, CopyIsStored, AlertIsAsStored
<1> QED
  BY <1>1, AlertPageInitInv, AlertPageStep, PTL DEF AlertPageSpec

-----------------------------------------------------------------------------
(* The pages together.                                                      *)

(* A browser's initial states and steps are those of each of its pages.     *)
LEMMA PagesInit ==
  ClientInit => /\ ExecInit /\ QueryPageInit /\ LoadingInit /\ LayoutInit /\ HeightsInit
                /\ ScreenInit /\ ListInit /\ AlertPageInit /\ ParametersInit /\ DatasetInit
BY DEF ClientInit

LEMMA PagesStep ==
  [ClientNext]_clientVars =>
      /\ [ExecNext]_execVars /\ [QueryPageNext]_queryVars /\ [LoadingNext]_loadingVars
      /\ [LayoutNext]_layoutVars /\ [HeightsNext]_heightVars /\ [ScreenNext]_screenVars
      /\ [ListNext]_listVars /\ [AlertPageNext]_alertVars /\ [ParametersNext]_parametersVars
      /\ [DatasetNext]_datasetVars
<1> SUFFICES ASSUME [ClientNext]_clientVars
             PROVE  /\ [ExecNext]_execVars /\ [QueryPageNext]_queryVars /\ [LoadingNext]_loadingVars
                    /\ [LayoutNext]_layoutVars /\ [HeightsNext]_heightVars /\ [ScreenNext]_screenVars
                    /\ [ListNext]_listVars /\ [AlertPageNext]_alertVars
                    /\ [ParametersNext]_parametersVars /\ [DatasetNext]_datasetVars
  OBVIOUS
<1>1. CASE ClientNext
  BY <1>1, Zenon DEF ClientNext
<1>2. CASE UNCHANGED clientVars
  BY <1>2, Zenon DEF clientVars
<1> QED
  BY <1>1, <1>2

(* Pages share no state: with one open, a browser behaves as that page's    *)
(* specification allows, and the fairness of a page is fairness of its own  *)
(* steps.                                                                   *)
THEOREM PagesKeepTheirSpecs ==
  ClientSpec => /\ ExecSpec /\ QueryPageSpec /\ LoadingSpec /\ LayoutSpec /\ HeightsSpec
                /\ ScreenSpec /\ ListSpec /\ AlertPageSpec /\ ParametersSpec /\ DatasetSpec
BY PagesInit, PagesStep, PTL DEF ClientSpec, ExecSpec, QueryPageSpec, LoadingSpec, LayoutSpec,
   HeightsSpec, ScreenSpec, ListSpec, AlertPageSpec, ParametersSpec, DatasetSpec

(* What is proved of the pages one by one holds of the browser, whichever   *)
(* page is open.                                                            *)
THEOREM ClientKeepsItsTypes == ClientSpec => []ClientTypeOK
<1>1. ClientSpec => /\ []ExecTypeOK /\ []QueryPageTypeOK /\ []LoadingTypeOK /\ []LayoutTypeOK
                    /\ []HeightsTypeOK /\ []ScreenTypeOK /\ []ListTypeOK /\ []AlertPageTypeOK
                    /\ []ParametersTypeOK /\ []DatasetTypeOK
  BY PagesKeepTheirSpecs, LastExecutionIsShown, WhatIsCleanIsSaved, DashboardsSettle,
     SavingEndsSomehow, HeightsStayWatched, ScreensKeepTheirSettings, ListsShowWhatIsAsked,
     AlertPageAgrees, ParametersStayInStep, DatasetsAreJoined, PTL
<1>2. ClientTypeOK <=> /\ ExecTypeOK /\ QueryPageTypeOK /\ LoadingTypeOK /\ LayoutTypeOK
                       /\ HeightsTypeOK /\ ScreenTypeOK /\ ListTypeOK /\ AlertPageTypeOK
                       /\ ParametersTypeOK /\ DatasetTypeOK
  BY Zenon DEF ClientTypeOK
<1> QED
  BY <1>1, <1>2, PTL

(* The invariants of the pages, and what a step of the screen editor keeps. *)
THEOREM ClientIsCorrect ==
  ClientSpec =>
      /\ []OnlyTheLastIsShown /\ []CleanMeansSaved /\ []SpinnersAreBacked /\ []ParameterIsShown
      /\ []HeightsAreWatched /\ []SettingsHaveCharts /\ []ShownIsAsked /\ []PageInRange
      /\ []AlertIsAsStored /\ []ColumnIsOfQuery /\ []ParametersAgree /\ []GraphIsJoined
      /\ NewChartIsOnTop
BY PagesKeepTheirSpecs, LastExecutionIsShown, WhatIsCleanIsSaved, DashboardsSettle,
   HeightsStayWatched, ScreensKeepTheirSettings, ListsShowWhatIsAsked, AlertPageAgrees,
   ParametersStayInStep, DatasetsAreJoined, PTL
=============================================================================
