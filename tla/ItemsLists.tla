----------------------------- MODULE ItemsLists -----------------------------
(***************************************************************************)
(* The lists of queries, dashboards, users, alerts, groups (items-list):   *)
(* the controls change the state of an ItemsSource at once, which fetches  *)
(* the items that belong to it and shows what comes back.  A paginated     *)
(* list asks the server for one page; a plain list has all items fetched,  *)
(* and sorts and pages them itself.                                        *)
(*                                                                         *)
(* Items are counted, not named: what is shown is described by the         *)
(* controls' state it was made for.                                        *)
(***************************************************************************)
EXTENDS Naturals

CONSTANTS
    MaxItems,       \* bound: items on the server
    PageSizes,      \* choices for itemsPerPage
    MaxFetches      \* bound: fetches of one visit

ASSUME ListAssumption ==
    MaxItems \in Nat /\ MaxFetches \in Nat \ {0} /\ PageSizes \subseteq Nat \ {0}

VARIABLES
    isPlainList,    \* which fetcher the list has
    count,          \* items on the server
    controls,       \* page, itemsPerPage, totalCount, field, reverse, searchTerm, tags
    savedField,     \* _savedOrderByField
    fetches,        \* the requests under way
    fetched,        \* how many there were
    allItemsOrder,  \* field and reverse that a plain list's _allItems are sorted by
    listShown,      \* what the page's items were made for
    listLoad,       \* "loading", "loaded", or "failed"
    crossed,        \* a request was sent while another one was under way
    pageMoved       \* the last answer took the page back to 1

listVars == <<isPlainList, count, controls, savedField, fetches, fetched, allItemsOrder, listShown,
              listLoad, crossed, pageMoved>>

OrderFields == {"none", "created_at", "name"}
Controls == [page : Nat \ {0}, itemsPerPage : PageSizes, totalCount : 0 .. MaxItems,
             field : OrderFields, reverse : BOOLEAN, searchTerm : {"", "term"}, tags : BOOLEAN]

ListTypeOK ==
    /\ isPlainList \in BOOLEAN /\ count \in 0 .. MaxItems
    /\ controls \in Controls
    /\ savedField \in OrderFields
    /\ \A f \in fetches : f.number \in 1 .. MaxFetches /\ f.for \in Controls
    /\ fetched \in 0 .. MaxFetches
    /\ allItemsOrder \in [field : OrderFields, reverse : BOOLEAN]
    /\ listShown.for \in Controls /\ listShown.items \in 0 .. MaxItems
    /\ listLoad \in {"loading", "loaded", "failed"}
    /\ crossed \in BOOLEAN /\ pageMoved \in BOOLEAN

-----------------------------------------------------------------------------
(* Paginator. *)

TotalPages(c) == (c.totalCount + c.itemsPerPage - 1) \div c.itemsPerPage
SetPage(c, value) == [c EXCEPT !.page = IF value \in 1 .. TotalPages(c) THEN value ELSE 1]
SetItemsPerPage(c, value) == SetPage([c EXCEPT !.itemsPerPage = value], c.page)

(* Mutant: the page is not validated with the new count. *)
SetTotalCountOnly(c, value) == [c EXCEPT !.totalCount = value]

SetTotalCount(c, value) == SetPage([c EXCEPT !.totalCount = value], c.page)

(* getItemsForPage: how many of n items are on the page.                    *)
ItemsForPage(c, n) ==
    LET first == c.itemsPerPage * (c.page - 1) IN
    IF n <= first THEN 0
    ELSE IF n < first + c.itemsPerPage THEN n - first ELSE c.itemsPerPage

(* Sorter.toggleField. *)
ToggleField(c, field) ==
    IF c.field = field THEN [c EXCEPT !.reverse = ~@]
    ELSE [c EXCEPT !.field = field, !.reverse = FALSE]

OrderOf(c) == [field |-> c.field, reverse |-> c.reverse]

-----------------------------------------------------------------------------
(* A visit starts with the state of the URL, whose page nobody has checked. *)
ListInit ==
    /\ isPlainList \in BOOLEAN /\ count \in 0 .. MaxItems
    /\ \E p \in 1 .. 2, s \in PageSizes :
          controls = [page |-> p, itemsPerPage |-> s, totalCount |-> 0, field |-> "created_at",
                      reverse |-> FALSE, searchTerm |-> "", tags |-> FALSE]
    /\ savedField = controls.field
    /\ fetches = {[number |-> 1, for |-> controls]} /\ fetched = 1
    /\ allItemsOrder = OrderOf(controls)
    /\ listShown = [for |-> controls, items |-> 0]
    /\ listLoad = "loading"
    /\ crossed = FALSE /\ pageMoved = FALSE

(* _changed with a request: what it asks for is fixed now.                  *)
Fetch(c) ==
    /\ fetched < MaxFetches /\ fetched' = fetched + 1
    /\ controls' = c
    /\ fetches' = fetches \union {[number |-> fetched', for |-> c]}
    /\ listLoad' = "loading"
    /\ crossed' = (crossed \/ fetches # {})
    /\ UNCHANGED <<isPlainList, count, allItemsOrder, listShown, pageMoved>>

(* Without one: the items a plain list had fetched last, sorted as they were *)
(* then, even if an order was chosen since and is being fetched.            *)
Reuse(c) ==
    LET moved == SetTotalCount(c, controls.totalCount) IN
    /\ controls' = moved
    /\ listShown' = [for |-> [c EXCEPT !.field = allItemsOrder.field,
                                       !.reverse = allItemsOrder.reverse],
                     items |-> ItemsForPage(c, controls.totalCount)]
    /\ listLoad' = "loaded"
    /\ pageMoved' = (moved.page # c.page)
    /\ UNCHANGED <<isPlainList, count, fetches, fetched, allItemsOrder, crossed>>

Usable == listLoad # "failed"

UpdatePagination ==
    /\ Usable
    /\ \E size \in PageSizes, page \in 1 .. MaxItems :
          LET c == SetPage(SetItemsPerPage(controls, size), page) IN
          c # controls /\ IF isPlainList THEN Reuse(c) ELSE Fetch(c)
    /\ UNCHANGED savedField

ToggleSorting ==
    /\ Usable
    /\ \E field \in OrderFields \ {"none"} :
          Fetch(ToggleField(controls, field)) /\ savedField' = field

(* No plain list has a search.  A search has the order of its ranking.      *)
UpdateSearch ==
    /\ Usable /\ ~isPlainList
    /\ \E term \in {"", "term"} \ {controls.searchTerm} :
          Fetch(SetPage([controls EXCEPT !.searchTerm = term,
                                         !.field = IF term = "" THEN savedField ELSE "none"], 1))
    /\ UNCHANGED savedField

(* A tag is chosen, or none. *)
UpdateSelectedTags ==
    /\ Usable /\ ~isPlainList
    /\ Fetch(SetPage([controls EXCEPT !.tags = ~@], 1))
    /\ UNCHANGED savedField

(* An item is deleted, or one is added, and the list is fetched again.      *)
UpdateItems ==
    /\ Usable
    /\ fetched < MaxFetches /\ fetched' = fetched + 1
    /\ count' \in {n \in 0 .. MaxItems : n = count + 1 \/ n + 1 = count}
    /\ fetches' = fetches \union {[number |-> fetched', for |-> controls]}
    /\ listLoad' = "loading"
    /\ crossed' = (crossed \/ fetches # {})
    /\ UNCHANGED <<isPlainList, controls, savedField, allItemsOrder, listShown, pageMoved>>

-----------------------------------------------------------------------------
(* One item has the term and the tag. *)
Found(c) == IF (c.searchTerm # "" \/ c.tags) /\ count > 0 THEN 1 ELSE count

(* Mutant: a plain list is paged and sorted as it was asked for. *)
MadeForAsked(f) == f.for

(* A plain list is paged and sorted with the controls of now.               *)
MadeFor(f) == IF isPlainList THEN controls ELSE f.for

FetchAnswered ==
    \E f \in fetches :
        LET c == MadeFor(f)
            moved == SetTotalCount(controls, Found(c)) IN
        /\ isPlainList \/ ItemsForPage(c, Found(c)) > 0 \/ Found(c) = 0
        /\ fetches' = fetches \ {f}
        /\ allItemsOrder' = IF isPlainList THEN OrderOf(c) ELSE allItemsOrder
        /\ listShown' = [for |-> c, items |-> ItemsForPage(c, Found(c))]
        /\ controls' = moved
        /\ pageMoved' = (moved.page # controls.page)
        /\ listLoad' = "loaded"
        /\ UNCHANGED <<isPlainList, count, savedField, fetched, crossed>>

(* Also the server's answer to a page that is out of range.                 *)
FetchFailed ==
    \E f \in fetches :
        /\ fetches' = fetches \ {f}
        /\ listLoad' = "failed"
        /\ UNCHANGED <<isPlainList, count, controls, savedField, fetched, allItemsOrder,
                       listShown, crossed, pageMoved>>

ListNext ==
    \/ UpdatePagination \/ ToggleSorting \/ UpdateSearch \/ UpdateSelectedTags \/ UpdateItems
    \/ FetchAnswered \/ FetchFailed

ListSpec == ListInit /\ [][ListNext]_listVars

-----------------------------------------------------------------------------
(* A loaded list shows the items its controls say: the search, the order,  *)
(* the page and its size.  A plain list need not before its last request is *)
(* answered, nor a paginated one when two requests were under way at once, *)
(* nor either after an answer that moved the page, which does not fetch    *)
(* again.                                                                  *)
ShownIsAsked ==
    listLoad = "loaded" /\ (IF isPlainList THEN fetches = {} ELSE ~crossed) /\ ~pageMoved =>
        [listShown.for EXCEPT !.totalCount = 0] = [controls EXCEPT !.totalCount = 0]

(* The page of a loaded list is one of its pages, however items come and   *)
(* go and page sizes change between a request and its answer.              *)
PageInRange == listLoad = "loaded" => controls.page = 1 \/ controls.page <= TotalPages(controls)
=============================================================================
