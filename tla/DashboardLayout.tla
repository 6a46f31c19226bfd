-------------------------- MODULE DashboardLayout --------------------------
(***************************************************************************)
(* Editing the layout of a dashboard (useEditModeHandler.js): every change *)
(* of the grid starts a timer of its own, a timer's end posts the widgets  *)
(* whose position differs from the one last answered, and the Done button  *)
(* waits until the status is "saved".                                      *)
(***************************************************************************)
EXTENDS Naturals

CONSTANTS
    GridWidgets,    \* the widgets of the dashboard
    Positions,      \* where one can be
    MaxMoves        \* bound: changes of the layout

ASSUME LayoutAssumption == MaxMoves \in Nat

VARIABLES
    grid,           \* the position of each widget on the screen; the removed have none
    known,          \* widget.options.position
    stored,         \* the position the server has
    moves,          \* how many changes there were
    timers,         \* the layouts whose timer runs
    batches,        \* the saves under way
    layoutStatus,   \* dashboardStatus
    recentPositions,\* what Retry saves
    editingLayout,
    gridDisabled,   \* the window is too narrow for a grid
    doneClicked     \* doneBtnClickedWhileSaving

layoutVars == <<grid, known, stored, moves, timers, batches, layoutStatus, recentPositions,
                editingLayout, gridDisabled, doneClicked>>

present == DOMAIN grid
Layouts == UNION {[ws -> Positions] : ws \in SUBSET GridWidgets}
LayoutStatuses == {"saved", "saving", "saving_failed"}

LayoutTypeOK ==
    /\ grid \in Layouts /\ recentPositions \in Layouts
    /\ known \in [GridWidgets -> Positions] /\ stored \in [GridWidgets -> Positions]
    /\ moves \in 0 .. MaxMoves
    /\ \A t \in timers : t.move \in 1 .. MaxMoves /\ t.layout \in Layouts
    /\ \A b \in batches : b.sent \cup b.done \subseteq GridWidgets /\ b.layout \in Layouts
    /\ layoutStatus \in LayoutStatuses
    /\ editingLayout \in BOOLEAN /\ gridDisabled \in BOOLEAN /\ doneClicked \in BOOLEAN

LayoutInit ==
    /\ \E p \in Positions : grid = [w \in GridWidgets |-> p]
    /\ known = grid /\ stored = grid /\ recentPositions = grid
    /\ moves = 0 /\ timers = {} /\ batches = {}
    /\ layoutStatus = "saved"
    /\ editingLayout = FALSE /\ gridDisabled = FALSE /\ doneClicked = FALSE

-----------------------------------------------------------------------------
(* A new status; the effect of useEditModeHandler ends the editing when the *)
(* Done button waits and the status is "saved".                             *)
SetStatus(s) ==
    /\ layoutStatus' = s
    /\ editingLayout' = (editingLayout /\ ~(doneClicked /\ s = "saved"))
    /\ doneClicked' = (doneClicked /\ s # "saved")

(* The page is seen editing: what useEditModeHandler returns.               *)
EditingShown == editingLayout /\ ~gridDisabled

(* Saves go on while the mode is hidden in a narrow window, and are heard.  *)
BreakpointChange ==
    /\ gridDisabled' = ~gridDisabled
    /\ UNCHANGED <<grid, known, stored, moves, timers, batches, layoutStatus, recentPositions,
                   editingLayout, doneClicked>>

StartEditing ==
    /\ ~editingLayout /\ ~gridDisabled /\ editingLayout' = TRUE
    /\ UNCHANGED <<grid, known, stored, moves, timers, batches, layoutStatus, recentPositions,
                   gridDisabled, doneClicked>>

(* The button is Retry while the status is "saving_failed".                 *)
DoneEditing ==
    /\ EditingShown /\ layoutStatus # "saving_failed"
    /\ IF layoutStatus = "saved"
       THEN editingLayout' = FALSE /\ UNCHANGED doneClicked
       ELSE doneClicked' = TRUE /\ UNCHANGED editingLayout
    /\ UNCHANGED <<grid, known, stored, moves, timers, batches, layoutStatus, recentPositions,
                   gridDisabled>>

(* onLayoutChange: the layout is handed over when the mode is edited.       *)
LayoutChanges(layout) ==
    /\ moves < MaxMoves /\ moves' = moves + 1
    /\ grid' = layout
    /\ IF EditingShown
       THEN /\ timers' = timers \union {[move |-> moves', layout |-> layout]}
            /\ SetStatus("saving")
       ELSE UNCHANGED <<timers, layoutStatus, editingLayout, doneClicked>>
    /\ UNCHANGED <<known, stored, batches, recentPositions, gridDisabled>>

MoveWidget ==
    /\ EditingShown
    /\ \E w \in present, p \in Positions :
          grid[w] # p /\ LayoutChanges([grid EXCEPT ![w] = p])

RemoveFromGrid ==
    \E w \in present : LayoutChanges([v \in present \ {w} |-> grid[v]])

(* Mutant: a batch of nothing leaves the status. *)
StatusOfSavedLate(changed) == "saving"

(* Promise.all of no promise is kept at once.                               *)
StatusOfSaved(changed) == IF changed = {} THEN "saved" ELSE "saving"

(* saveDashboardLayout: the positions that differ from those last answered. *)
SaveLayout(layout, id) ==
    LET changed == {w \in DOMAIN layout : known[w] # layout[w]} IN
    /\ recentPositions' = layout
    /\ batches' = IF changed = {} THEN batches
                  ELSE batches \union {[id |-> id, layout |-> layout, sent |-> changed,
                                        done |-> {}, failed |-> FALSE]}
    /\ SetStatus(StatusOfSaved(changed))

TimerEnds ==
    \E t \in timers :
        /\ timers' = timers \ {t}
        /\ SaveLayout(t.layout, t.move)
        /\ UNCHANGED <<grid, known, stored, moves, gridDisabled>>

(* Retry compares the positions with the widgets of now: with one that has  *)
(* been removed it throws, and nothing changes.                             *)
Retry ==
    /\ EditingShown /\ layoutStatus = "saving_failed"
    /\ DOMAIN recentPositions \subseteq present
    /\ \A b \in batches : b.id # 0
    /\ SaveLayout(recentPositions, 0)
    /\ UNCHANGED <<grid, known, stored, moves, timers, gridDisabled>>

-----------------------------------------------------------------------------
Replace(b, c) == batches' = (batches \ {b}) \union {c}
Finish(b) == batches' = batches \ {b}

(* The server stores a position, unless the widget is gone.                 *)
StorePosition ==
    \E b \in batches : \E w \in (b.sent \ b.done) \cap present :
        /\ stored' = [stored EXCEPT ![w] = b.layout[w]]
        /\ Replace(b, [b EXCEPT !.done = @ \union {w}])
        /\ UNCHANGED <<grid, known, moves, timers, layoutStatus, recentPositions, editingLayout,
                       gridDisabled, doneClicked>>

(* Its answer becomes the widget's position; the last one ends the batch,   *)
(* which decides the status unless one before it failed.                    *)
PositionAnswered ==
    \E b \in batches : \E w \in b.done :
        LET rest == [b EXCEPT !.sent = @ \ {w}, !.done = @ \ {w}] IN
        /\ known' = [known EXCEPT ![w] = b.layout[w]]
        /\ IF rest.sent = {}
           THEN /\ Finish(b)
                /\ IF b.failed
                   THEN UNCHANGED <<layoutStatus, editingLayout, doneClicked>>
                   ELSE SetStatus("saved")
           ELSE /\ Replace(b, rest)
                /\ UNCHANGED <<layoutStatus, editingLayout, doneClicked>>
        /\ UNCHANGED <<grid, stored, moves, timers, recentPositions, gridDisabled>>

(* The first failure of a batch decides the status.                         *)
StatusOfFailure(b) == IF b.failed THEN layoutStatus ELSE "saving_failed"

PositionFailed ==
    \E b \in batches : \E w \in b.sent :
        LET rest == [b EXCEPT !.sent = @ \ {w}, !.done = @ \ {w}, !.failed = TRUE] IN
        /\ IF rest.sent = {} THEN Finish(b) ELSE Replace(b, rest)
        /\ SetStatus(StatusOfFailure(b))
        /\ UNCHANGED <<grid, known, stored, moves, timers, recentPositions, gridDisabled>>

LayoutNext ==
    \/ BreakpointChange \/ StartEditing \/ DoneEditing \/ MoveWidget \/ RemoveFromGrid
    \/ TimerEnds \/ Retry \/ StorePosition \/ PositionAnswered \/ PositionFailed

(* Timers end and requests are answered, one way or another.                *)
LayoutFairness ==
    /\ WF_layoutVars(TimerEnds)
    /\ WF_layoutVars(StorePosition \/ PositionAnswered \/ PositionFailed)

LayoutSpec == LayoutInit /\ [][LayoutNext]_layoutVars /\ LayoutFairness

-----------------------------------------------------------------------------
(* "Saving" is shown while a timer runs or a save that has not failed is   *)
(* under way: otherwise no answer would ever end it, and Done would wait   *)
(* for ever.                                                               *)
SavingIsBacked ==
    layoutStatus = "saving" => timers # {} \/ \E b \in batches : ~b.failed

(* The Done button that waits for a save ends the editing, or the page     *)
(* offers a retry, however saves overlap.                                  *)
DoneIsHeard == doneClicked ~> (~editingLayout \/ layoutStatus = "saving_failed")
=============================================================================
