---------------------------- MODULE DatasetJoins ----------------------------
(***************************************************************************)
(* The page that builds a dataset (Dataset.jsx): tables are dropped on a   *)
(* graph, a dialog asks how each is joined to one that is there already,   *)
(* and the query's text is made of the answers.  The query is saved and    *)
(* renamed meanwhile; the answers bring back the text it had then.         *)
(***************************************************************************)
EXTENDS Integers, Sequences, SequencesExt

CONSTANTS Tables, MaxConditions, MaxDatasetRequests

VARIABLES
    nodes, edges,       \* joinData: tables, and pairs of positions in nodes
    dataSetJoin,
    showJoinDataModal,
    leftTable,          \* a position in nodes; 0 as long as nobody chose in the form
    relationCondition,  \* of the form; a condition with one field of two is "half"
    sql, savedSql,      \* query.query and originalQuerySource
    saveRequest, renameRequest,     \* the text that is to come back, or NoText
    datasetRequests,
    reverted            \* history: an answer brought an older text back

datasetVars == <<nodes, edges, dataSetJoin, showJoinDataModal, leftTable, relationCondition, sql,
                 savedSql, saveRequest, renameRequest, datasetRequests, reverted>>

\* A text is the table it selects from and what is joined to it.
EmptyText == [from |-> "nothing", joins |-> <<>>]
NoText == [from |-> "no text", joins |-> <<>>]

IsText(t) == /\ t.from \in Tables \union {"nothing", "no text"}
             /\ \A i \in DOMAIN t.joins : {t.joins[i].left, t.joins[i].right} \subseteq Tables

DatasetTypeOK ==
    /\ nodes \in Seq(Tables)
    /\ \A i \in DOMAIN edges : edges[i] \in (1 .. Len(nodes)) \X (1 .. Len(nodes))
    /\ \A i \in DOMAIN dataSetJoin :
          {dataSetJoin[i].left, dataSetJoin[i].right} \subseteq Tables
    /\ showJoinDataModal \in BOOLEAN /\ leftTable \in 0 .. Len(nodes)
    /\ \A i \in DOMAIN relationCondition : relationCondition[i] \in {"none", "half", "both"}
    /\ IsText(sql) /\ IsText(savedSql) /\ IsText(saveRequest) /\ IsText(renameRequest)
    /\ reverted \in BOOLEAN

DatasetInit ==
    /\ nodes = <<>> /\ edges = <<>> /\ dataSetJoin = <<>>
    /\ showJoinDataModal = FALSE /\ leftTable = 0 /\ relationCondition = <<"none">>
    /\ sql = EmptyText /\ savedSql = EmptyText
    /\ saveRequest = NoText /\ renameRequest = NoText /\ datasetRequests = 0
    /\ reverted = FALSE

\* getJoinSqlText
JoinSqlText(ns, joins) ==
    CASE ns = <<>>    -> EmptyText
      [] Len(ns) = 1  -> [from |-> ns[1], joins |-> <<>>]
      [] OTHER        -> [from |-> joins[1].left, joins |-> joins]

SetText(t) == sql' = t /\ reverted' = FALSE

-----------------------------------------------------------------------------
(* The graph.                                                               *)

\* The first table needs no dialog; one that is there already is refused.
DropTable ==
    /\ ~showJoinDataModal
    /\ \E t \in Tables \ ToSet(nodes) : nodes' = Append(nodes, t)
    /\ showJoinDataModal' = (Len(nodes') > 1)
    /\ IF Len(nodes') > 1 THEN UNCHANGED <<sql, reverted>> ELSE SetText(JoinSqlText(nodes', dataSetJoin))
    /\ UNCHANGED <<edges, dataSetJoin, leftTable, relationCondition, savedSql, saveRequest,
                   renameRequest, datasetRequests>>

\* The last node is disabled.  The form outlives the dialog, and keeps what was chosen.
ChooseLeftTable ==
    /\ showJoinDataModal
    /\ leftTable' \in 1 .. Len(nodes) - 1
    /\ UNCHANGED <<nodes, edges, dataSetJoin, showJoinDataModal, relationCondition, sql, savedSql,
                   saveRequest, renameRequest, datasetRequests, reverted>>

\* addCondition, removeCondition (of any but the first) and updateRelationCondition
ChangeConditions ==
    /\ showJoinDataModal
    /\ \/ /\ Len(relationCondition) < MaxConditions
          /\ relationCondition' = Append(relationCondition, "none")
       \/ \E i \in 2 .. Len(relationCondition) : relationCondition' = RemoveAt(relationCondition, i)
       \/ \E i \in DOMAIN relationCondition :
             relationCondition' = [relationCondition EXCEPT ![i] =
                                      IF @ = "half" THEN "both" ELSE "half"]
       \/ \E i \in DOMAIN relationCondition :
             relationCondition[i] = "half"
             /\ relationCondition' = [relationCondition EXCEPT ![i] = "none"]
    /\ UNCHANGED <<nodes, edges, dataSetJoin, showJoinDataModal, leftTable, sql, savedSql,
                   saveRequest, renameRequest, datasetRequests, reverted>>

\* The default is the node before the new one.
LeftPosition == IF leftTable = 0 THEN Len(nodes) - 1 ELSE leftTable

ResetCondition == relationCondition' = <<"none">> /\ showJoinDataModal' = FALSE

\* joinDataModalComfirm and updateJoin
ConfirmJoin ==
    /\ showJoinDataModal /\ ~ \E i \in DOMAIN relationCondition : relationCondition[i] = "half"
    /\ edges' = Append(edges, <<LeftPosition, Len(nodes)>>)
    /\ dataSetJoin' = Append(dataSetJoin, [left |-> nodes[LeftPosition], right |-> Last(nodes)])
    /\ SetText(JoinSqlText(nodes, dataSetJoin'))
    /\ ResetCondition
    /\ UNCHANGED <<nodes, leftTable, savedSql, saveRequest, renameRequest, datasetRequests>>

\* Mutant: the join is taken back as well, although it has not been made yet.
JoinsAfterCancelPopped == Front(dataSetJoin)

\* joinDataModalCancle; the lines that take a join back are commented out.
JoinsAfterCancel == dataSetJoin

CancelJoin ==
    /\ showJoinDataModal
    /\ nodes' = Front(nodes)
    /\ dataSetJoin' = JoinsAfterCancel
    /\ ResetCondition
    /\ UNCHANGED <<edges, leftTable, sql, savedSql, saveRequest, renameRequest, datasetRequests,
                   reverted>>

-----------------------------------------------------------------------------
(* The query.  A save sends the text, a rename does not; each answer makes  *)
(* a new query object of the one it was sent from, with the text of then.   *)

SaveDataset ==
    /\ ~showJoinDataModal /\ datasetRequests < MaxDatasetRequests
    /\ datasetRequests' = datasetRequests + 1
    /\ \/ saveRequest = NoText /\ saveRequest' = sql /\ UNCHANGED renameRequest
       \/ renameRequest = NoText /\ renameRequest' = sql /\ UNCHANGED saveRequest
    /\ UNCHANGED <<nodes, edges, dataSetJoin, showJoinDataModal, leftTable, relationCondition, sql,
                   savedSql, reverted>>

BringBack(t) == sql' = t /\ reverted' = (reverted \/ t # sql)

DatasetAnswered ==
    /\ \/ /\ saveRequest # NoText /\ saveRequest' = NoText /\ UNCHANGED renameRequest
          /\ BringBack(saveRequest) /\ savedSql' = saveRequest
       \/ /\ renameRequest # NoText /\ renameRequest' = NoText /\ UNCHANGED saveRequest
          /\ BringBack(renameRequest) /\ UNCHANGED savedSql
    /\ UNCHANGED <<nodes, edges, dataSetJoin, showJoinDataModal, leftTable, relationCondition,
                   datasetRequests>>

\* A notification only.
DatasetRequestFails ==
    /\ \/ saveRequest # NoText /\ saveRequest' = NoText /\ UNCHANGED renameRequest
       \/ renameRequest # NoText /\ renameRequest' = NoText /\ UNCHANGED saveRequest
    /\ UNCHANGED <<nodes, edges, dataSetJoin, showJoinDataModal, leftTable, relationCondition, sql,
                   savedSql, datasetRequests, reverted>>

\* doExecuteQuery: the text of the graph if the query's has not been saved.
Executed == IF sql # savedSql THEN JoinSqlText(nodes, dataSetJoin) ELSE sql

DatasetNext ==
    \/ DropTable \/ ChooseLeftTable \/ ChangeConditions \/ ConfirmJoin \/ CancelJoin
    \/ SaveDataset \/ DatasetAnswered \/ DatasetRequestFails

DatasetSpec == DatasetInit /\ [][DatasetNext]_datasetVars

-----------------------------------------------------------------------------
(* With the dialog closed, whatever was dropped, cancelled and confirmed:  *)
(* every table but the first is joined once, in the order of the graph, to *)
(* the table its edge comes from, which the text has before it; and what   *)
(* is executed is that text, unless an answer brought an older text back.  *)
GraphIsJoined ==
    ~showJoinDataModal /\ nodes # <<>> =>
        /\ Len(dataSetJoin) = Len(nodes) - 1 /\ Len(edges) = Len(nodes) - 1
        /\ \A i \in DOMAIN dataSetJoin :
              /\ edges[i][1] <= i /\ edges[i][2] = i + 1
              /\ dataSetJoin[i] = [left |-> nodes[edges[i][1]], right |-> nodes[i + 1]]
        /\ ~reverted => Executed = [from |-> nodes[1], joins |-> dataSetJoin]
=============================================================================
