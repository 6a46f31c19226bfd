--------------------------- MODULE WidgetHeights ---------------------------
(***************************************************************************)
(* AutoHeightController.js: a timer measures the widgets with an automatic *)
(* height, until a manual resize ends that for the widget.  The grid stops *)
(* the timer when a resize starts and resumes it when one ends; the page   *)
(* hands over the widgets after every change.                              *)
(***************************************************************************)
CONSTANT HeightWidgets

VARIABLES
    onPage,         \* the widgets of the page
    auto,           \* those whose position says autoHeight
    watched,        \* controller.widgets: "absent", "watched" or "removed"
    ticking,        \* the interval runs
    resizing        \* a resize is under way

heightVars == <<onPage, auto, watched, ticking, resizing>>

HeightsTypeOK ==
    /\ onPage \subseteq HeightWidgets /\ auto \subseteq HeightWidgets
    /\ watched \in [HeightWidgets -> {"absent", "watched", "removed"}]
    /\ ticking \in BOOLEAN /\ resizing \subseteq HeightWidgets

SomeWatched(f) == \E w \in HeightWidgets : f[w] = "watched"

\* add(): a widget that was removed is not added again.
MustAdd(ws, w) == w \in ws /\ watched[w] = "absent"

(* controller.update: the widgets that are new are added, and the timer     *)
(* starts when there was none to watch; the others are removed, and it      *)
(* stops with the last one.                                                 *)
Update(ws) ==
    LET added == {w \in HeightWidgets : MustAdd(ws, w)}
        after == [w \in HeightWidgets |->
                     IF w \in added THEN "watched"
                     ELSE IF watched[w] # "absent" /\ w \notin ws THEN "removed" ELSE watched[w]]
        removed == {w \in HeightWidgets : watched[w] = "watched" /\ after[w] = "removed"}
    IN /\ watched' = after
       /\ ticking' = /\ ticking \/ (added # {} /\ ~SomeWatched(watched))
                     /\ removed = {} \/ SomeWatched(after)

(* Mutant: the timer is not stopped with the last widget. *)
StopIfEmptyNever(f) == ticking

StopIfEmpty(f) == ticking /\ SomeWatched(f)

HeightsInit ==
    /\ onPage \in SUBSET HeightWidgets /\ auto \in SUBSET HeightWidgets
    /\ watched = [w \in HeightWidgets |-> IF w \in onPage \cap auto THEN "watched" ELSE "absent"]
    /\ ticking = SomeWatched(watched)
    /\ resizing = {}

(* Widgets are added, removed, or saved with another position.              *)
PageChanges ==
    /\ \E ws, as \in SUBSET HeightWidgets : onPage' = ws /\ auto' = as
    /\ Update(onPage' \cap auto')
    /\ UNCHANGED resizing

ResizeStarts ==
    /\ resizing = {}
    /\ \E w \in onPage : resizing' = {w}
    /\ ticking' = FALSE
    /\ UNCHANGED <<onPage, auto, watched>>

(* onWidgetResize: a changed height ends the widget's automatic one.        *)
ResizeEnds ==
    \E w \in resizing, changed \in BOOLEAN :
        /\ resizing' = {}
        /\ watched' = IF changed /\ watched[w] = "watched"
                      THEN [watched EXCEPT ![w] = "removed"] ELSE watched
        /\ ticking' = (StopIfEmpty(watched') \/ SomeWatched(watched'))
        /\ UNCHANGED <<onPage, auto>>

HeightsNext == PageChanges \/ ResizeStarts \/ ResizeEnds

HeightsSpec == HeightsInit /\ [][HeightsNext]_heightVars

-----------------------------------------------------------------------------
(* The timer runs exactly while there is a widget to watch, except that a  *)
(* resize stops it: no order of updates and resizes leaves it off, or on.  *)
HeightsAreWatched ==
    /\ ticking => SomeWatched(watched)
    /\ SomeWatched(watched) /\ resizing = {} => ticking
=============================================================================
