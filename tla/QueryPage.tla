----------------------------- MODULE QueryPage -----------------------------
(***************************************************************************)
(* The saves of one query page.  The page keeps a copy of the query; the   *)
(* Save button sends every stored field of it, renaming, tagging,          *)
(* publishing and the dialogs send one field each, and the user goes on    *)
(* typing meanwhile.  Every handler holds the copy it was created with:    *)
(* an answer is applied to that copy, and the result becomes the page's.   *)
(*                                                                         *)
(* A field's value is the number of the edit that wrote it, so that a      *)
(* greater value is a later one; 0 is what was there before.  Other users  *)
(* take no part: their saves are in DocumentEditing.                       *)
(***************************************************************************)
EXTENDS Naturals, FiniteSets

CONSTANTS
    MaxEdits,       \* bound: edits in one visit to the page
    MaxInFlight     \* bound: requests the page waits for at once

ASSUME QueryPageAssumption == MaxEdits \in Nat /\ MaxInFlight \in Nat

VARIABLES
    query,          \* the page's copy of the query
    isNew,          \* the copy has no id
    originalSource, \* originalQuerySource: the text that counts as saved
    querySaving,    \* isQuerySaving
    pageRequests,   \* the requests the page waits for
    row,            \* the stored query
    edits,          \* how many edits there were
    overlapped,     \* a full save was sent while another one was under way
    lost            \* the answer of a request that was carried out was lost

queryVars == <<query, isNew, originalSource, querySaving, pageRequests, row, edits,
               overlapped, lost>>

(* What the Save button sends, and what only requests of their own change.  *)
StoredFields == {"text", "name", "is_draft", "description", "schedule",
                 "data_source_id", "options"}
Fields == StoredFields \union {"tags", "visualizations", "is_archived"}
Values == 0 .. MaxEdits
Versions == [Fields -> Values]

isDirty == query["text"] # originalSource

(* A request: the fields it sends, their values, the copy of the query its *)
(* handler holds, and whether the server has carried it out.               *)
Request(kind, keys, data) ==
    [kind |-> kind, keys |-> keys, data |-> data, base |-> query, creates |-> isNew,
     done |-> FALSE]

(* The Save button's requests and those of edited parameters.               *)
IsFull(r) == r.kind \in {"save", "parameters"}

QueryPageTypeOK ==
    /\ query \in Versions /\ row \in Versions
    /\ originalSource \in Values /\ edits \in Values
    /\ {isNew, querySaving, overlapped, lost} \subseteq BOOLEAN
    /\ \A r \in pageRequests :
          /\ r.kind \in {"save", "parameters", "update", "format"} /\ r.keys \subseteq Fields
          /\ r.data \in Versions /\ r.base \in Versions
          /\ {r.creates, r.done} \subseteq BOOLEAN
    /\ Cardinality(pageRequests) <= MaxInFlight

(* The page of a stored query, or that of a new one.                        *)
QueryPageInit ==
    /\ query = [f \in Fields |-> 0] /\ row = query
    /\ isNew \in BOOLEAN
    /\ originalSource = 0
    /\ pageRequests = {} /\ edits = 0
    /\ querySaving = FALSE /\ overlapped = FALSE /\ lost = FALSE

-----------------------------------------------------------------------------
(* What the page does. *)

Edited(keys) == [f \in Fields |-> IF f \in keys THEN edits + 1 ELSE query[f]]
NextEdit == edits < MaxEdits /\ edits' = edits + 1

Submit(r) ==
    /\ Cardinality(pageRequests) < MaxInFlight
    /\ pageRequests' = pageRequests \union {r}
    /\ overlapped' = (overlapped \/ (IsFull(r) /\ \E other \in pageRequests : IsFull(other)))
    /\ UNCHANGED <<isNew, originalSource, row, lost>>

ChangeCopy(keys) ==
    /\ NextEdit
    /\ query' = Edited(keys)
    /\ UNCHANGED <<isNew, originalSource, querySaving, pageRequests, row, overlapped, lost>>

(* Typing may also bring an earlier text back. *)
Type ==
    \/ ChangeCopy({"text"})
    \/ /\ NextEdit
       /\ \E text \in 0 .. edits : query' = [query EXCEPT !["text"] = text]
       /\ UNCHANGED <<isNew, originalSource, querySaving, pageRequests, row, overlapped,
                      lost>>

AddParameter == ChangeCopy({"text", "options"})

(* useUpdateQuery with some fields: those of a new query only go into the  *)
(* copy, those of a stored one only to the server.                         *)
UpdateQuery(keys) ==
    IF isNew
    THEN ChangeCopy(keys)
    ELSE /\ NextEdit
         /\ Submit(Request("update", keys, Edited(keys)))
         /\ UNCHANGED <<query, querySaving>>

Rename == UpdateQuery({"name"}) \/ (row["is_draft"] = 0 /\ UpdateQuery({"name", "is_draft"}))
UpdateDescription == UpdateQuery({"description"})
UpdateTags == UpdateQuery({"tags"})
EditSchedule == UpdateQuery({"schedule"})
Publish == ~isNew /\ UpdateQuery({"is_draft"})
Unpublish == ~isNew /\ UpdateQuery({"is_draft"})
ArchiveQuery == ~isNew /\ query["is_archived"] = 0 /\ UpdateQuery({"is_archived", "schedule"})
EditVisualization == ~isNew /\ UpdateQuery({"visualizations"})
DeleteVisualization == ~isNew /\ UpdateQuery({"visualizations"})

(* The data source goes into the copy and to the server.                    *)
ChangeDataSource ==
    IF isNew
    THEN ChangeCopy({"data_source_id"})
    ELSE /\ NextEdit
         /\ query' = Edited({"data_source_id"})
         /\ Submit(Request("update", {"data_source_id"}, Edited({"data_source_id"})))
         /\ UNCHANGED querySaving

FormatQuery ==
    /\ NextEdit
    /\ Submit(Request("format", {"text"}, Edited({"text"})))
    /\ UNCHANGED <<query, querySaving>>

(* The Save button waits for its own save.                                  *)
Save ==
    /\ ~querySaving /\ querySaving' = TRUE
    /\ Submit(Request("save", StoredFields, query))
    /\ UNCHANGED <<query, edits>>

(* Parameters are found in the text.  Editing one saves the query, unless   *)
(* its text has changed; this save is nobody's turn but its own.            *)
EditParameter ==
    /\ query["text"] # 0
    /\ NextEdit
    /\ query' = Edited({"options"})
    /\ IF isDirty
       THEN UNCHANGED <<isNew, originalSource, pageRequests, row, overlapped, lost>>
       ELSE Submit([Request("parameters", StoredFields, query') EXCEPT !.base = query'])
    /\ UNCHANGED querySaving

-----------------------------------------------------------------------------
(* The server, and what becomes of an answer. *)

(* A save without an id stores a new query.                                *)
CarryOut(r) ==
    /\ r \in pageRequests /\ ~r.done
    /\ pageRequests' = (pageRequests \ {r}) \union {[r EXCEPT !.done = TRUE]}
    /\ IF r.kind = "format"
       THEN UNCHANGED row
       ELSE row' = [f \in Fields |-> IF f \in r.keys THEN r.data[f]
                                     ELSE IF r.creates THEN 0 ELSE row[f]]
    /\ UNCHANGED <<query, isNew, originalSource, querySaving, edits, overlapped, lost>>

SaveEnded(r) == querySaving' = (querySaving /\ r.kind # "save")

(* The copy the page has after the answer: the fields the request sent come *)
(* from the answer, the others from the copy its handler holds; a query     *)
(* that was just stored comes from the server as a whole.                   *)
Merged(r) ==
    [f \in Fields |-> IF f \in r.keys THEN r.data[f]
                      ELSE IF r.creates /\ IsFull(r) THEN 0 ELSE r.base[f]]

(* Mutant: every answer makes the text count as saved. *)
NewOriginalAlways(r) == Merged(r)["text"]

NewOriginal(r) == IF IsFull(r) THEN Merged(r)["text"] ELSE originalSource

Answer(r) ==
    /\ r \in pageRequests /\ r.done
    /\ pageRequests' = pageRequests \ {r}
    /\ query' = Merged(r)
    /\ originalSource' = NewOriginal(r)
    /\ isNew' = (r.creates /\ ~IsFull(r))
    /\ SaveEnded(r)
    /\ UNCHANGED <<row, edits, overlapped, lost>>

Fail(r) ==
    /\ r \in pageRequests
    /\ pageRequests' = pageRequests \ {r}
    /\ lost' = (lost \/ r.done)
    /\ SaveEnded(r)
    /\ UNCHANGED <<query, isNew, originalSource, row, edits, overlapped>>

QueryPageNext ==
    \/ Type \/ AddParameter \/ EditParameter \/ FormatQuery \/ Save
    \/ Rename \/ UpdateDescription \/ UpdateTags \/ EditSchedule \/ Publish \/ Unpublish
    \/ ArchiveQuery \/ EditVisualization \/ DeleteVisualization \/ ChangeDataSource
    \/ \E r \in pageRequests : CarryOut(r) \/ Answer(r) \/ Fail(r)

QueryPageSpec == QueryPageInit /\ [][QueryPageNext]_queryVars

-----------------------------------------------------------------------------
(* What the page calls saved is stored: once nothing is under way, a text  *)
(* without unsaved changes, which useUnsavedChangesAlert lets the user     *)
(* leave, is the stored one.  Renames, formatting and other requests of    *)
(* the page may come in between.  The two exceptions are in the history    *)
(* variables: full saves that overlap, and answers that are lost.          *)
CleanMeansSaved ==
    /\ \A r \in pageRequests : ~IsFull(r)
    /\ ~isDirty /\ ~overlapped /\ ~lost
    => query["text"] = row["text"]
=============================================================================
