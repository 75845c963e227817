---------------------------- MODULE SchemaSidebar ----------------------------
(***************************************************************************)
(* The schema-sidebar actions of the query workspace                       *)
(* (src/maxgui/workspace/src/store/orm/modules/schemaSidebars.js).         *)
(*                                                                         *)
(* fetchSchemas and loadChildNodes are async: each await is a point where  *)
(* the user and the other in-flight actions may run.  An in-flight call is *)
(* a task record, numbered by the call; each resumption after an await is *)
(* one step.                                                               *)
(*                                                                         *)
(* The tree of a worksheet (QueryEditorTmp.db_tree) is abstracted to the   *)
(* set of its parts, <<conn, "root">> for the schema list a connection     *)
(* returned and <<conn, g>> for the children of node group g fetched on    *)
(* conn; completion_items are set together with it and left out.           *)
(***************************************************************************)
EXTENDS Naturals, FiniteSets

CONSTANTS
  Wke,          \* worksheets
  ConnsOf,      \* ConnsOf[w]: the connections of worksheet w's query tabs
  Groups,       \* NODE_GROUP_TYPES
  EmptyConns,   \* connections whose SCHEMATA query returns no rows
  MaxCalls      \* how many fetchSchemas / loadChildNodes calls a behaviour makes

Conns == UNION {ConnsOf[w] : w \in Wke}
NoConn == "none"   \* getDbTreeOfConn's default ''

ASSUME /\ \A w \in Wke : ConnsOf[w] # {}
       /\ \A v, w \in Wke : v # w => ConnsOf[v] \cap ConnsOf[w] = {}
       /\ MaxCalls \in Nat

VARIABLES
  activeWke,    \* Worksheet.getters('getActiveWkeId')
  activeConn,   \* activeConn[w]: w's getActiveQueryTabConn
  expanded,     \* expanded[w]: SchemaSidebar.expanded_nodes of w
  tmp,          \* tmp[w]: QueryEditorTmp of w: loading, tree, treeOfConn
  tasks,        \* the calls suspended at an await
  calls         \* calls made so far

vars == <<activeWke, activeConn, expanded, tmp, tasks, calls>>

Root == "root"

Init ==
  /\ activeWke \in Wke
  /\ activeConn \in {f \in [Wke -> Conns] : \A w \in Wke : f[w] \in ConnsOf[w]}
  /\ expanded \in [Wke -> SUBSET Groups]
  /\ tmp = [w \in Wke |-> [loading |-> FALSE, tree |-> {}, treeOfConn |-> NoConn]]
  /\ tasks = {}
  /\ calls = 0

-----------------------------------------------------------------------------
(* The user: switching worksheet, query tab connection, expanding or       *)
(* collapsing a node group of the active worksheet's sidebar.              *)
SwitchWorksheet ==
  /\ \E w \in Wke \ {activeWke} : activeWke' = w
  /\ UNCHANGED <<activeConn, expanded, tmp, tasks, calls>>

ChangeConnection ==
  /\ \E c \in ConnsOf[activeWke] \ {activeConn[activeWke]} :
       activeConn' = [activeConn EXCEPT ![activeWke] = c]
  /\ UNCHANGED <<activeWke, expanded, tmp, tasks, calls>>

ToggleExpanded ==
  /\ \E g \in Groups :
       expanded' = [expanded EXCEPT ![activeWke] =
                      IF g \in @ THEN @ \ {g} ELSE @ \cup {g}]
  /\ UNCHANGED <<activeWke, activeConn, tmp, tasks, calls>>

-----------------------------------------------------------------------------
(* fetchSchemas, up to its first await: the active worksheet and its       *)
(* connection are read, loading_db_tree is set, and the query is sent.    *)
FetchSchemas ==
  /\ calls < MaxCalls
  /\ tmp' = [tmp EXCEPT ![activeWke].loading = TRUE]
  /\ tasks' = tasks \cup {[id |-> calls, op |-> "fetch", wke |-> activeWke, conn |-> activeConn[activeWke],
                           pc |-> "query", data |-> {}, todo |-> {}, from |-> activeWke]}
  /\ calls' = calls + 1
  /\ UNCHANGED <<activeWke, activeConn, expanded>>

(* Mutant: db_tree_of_conn is given the worksheet id captured with it. *)
WriteTreeWkeId(t, data) ==
  tmp' = [tmp EXCEPT ![t.wke] = [loading |-> FALSE, tree |-> data, treeOfConn |-> t.wke]]

(* fetchSchemas after the loop over the expanded nodes: the tree is       *)
(* written into the worksheet read before the first await.                 *)
WriteTree(t, data) ==
  tmp' = [tmp EXCEPT ![t.wke] = [loading |-> FALSE, tree |-> data, treeOfConn |-> t.conn]]

(* fetchSchemas resuming at an await of its loop: the next expanded group  *)
(* is fetched, or the loop is over and the tree written.                   *)
Continue(t, data, todo, from) ==
  IF todo = {}
    THEN WriteTree(t, data) /\ tasks' = tasks \ {t}
    ELSE /\ tasks' = (tasks \ {t}) \cup
                      {[t EXCEPT !.pc = "expand", !.data = data, !.todo = todo, !.from = from]}
         /\ UNCHANGED tmp

(* Mutant: the error path leaves loading_db_tree set. *)
SchemasAnsweredNoReset(t) ==
  /\ t.op = "fetch" /\ t.pc = "query"
  /\ \/ /\ tasks' = tasks \ {t}
        /\ UNCHANGED tmp
     \/ /\ t.conn \notin EmptyConns
        /\ Continue(t, {<<t.conn, Root>>}, expanded[activeWke], activeWke)
  /\ UNCHANGED <<activeWke, activeConn, expanded, calls>>

(* The query answered.  An error clears loading_db_tree; no rows leave    *)
(* everything as it is; otherwise the expanded nodes are read through      *)
(* getters.getExpandedNodes, i.e. from the worksheet active NOW.           *)
SchemasAnswered(t) ==
  /\ t.op = "fetch" /\ t.pc = "query"
  /\ \/ /\ tmp' = [tmp EXCEPT ![t.wke].loading = FALSE]
        /\ tasks' = tasks \ {t}
     \/ /\ t.conn \in EmptyConns
        /\ tasks' = tasks \ {t}
        /\ UNCHANGED tmp
     \/ /\ t.conn \notin EmptyConns
        /\ Continue(t, {<<t.conn, Root>>}, expanded[activeWke], activeWke)
  /\ UNCHANGED <<activeWke, activeConn, expanded, calls>>

(* getNewTreeData for one expanded group answered, fetched on the         *)
(* connection read before the first await.                                  *)
GroupAnswered(t) ==
  /\ t.op = "fetch" /\ t.pc = "expand"
  /\ LET g == CHOOSE g \in t.todo : TRUE
     IN  Continue(t, t.data \cup {<<t.conn, g>>}, t.todo \ {g}, t.from)
  /\ UNCHANGED <<activeWke, activeConn, expanded, calls>>

(* loadChildNodes, up to its await: the active worksheet, its connection  *)
(* and its current tree (getters.getDbTreeData) are read.  The user        *)
(* expands a node of the tree shown, which the callers keep the tree of    *)
(* the active connection.                                                  *)
LoadChildNodes ==
  /\ calls < MaxCalls
  /\ tmp[activeWke].treeOfConn = activeConn[activeWke]
  /\ \E g \in Groups :
       tasks' = tasks \cup {[id |-> calls, op |-> "load", wke |-> activeWke, conn |-> activeConn[activeWke],
                             pc |-> g, data |-> tmp[activeWke].tree, todo |-> {},
                             from |-> activeWke]}
  /\ calls' = calls + 1
  /\ UNCHANGED <<activeWke, activeConn, expanded, tmp>>

(* Mutant: the worksheet is looked up again after the await. *)
ChildNodesAnsweredActive(t) ==
  /\ t.op = "load"
  /\ tmp' = [tmp EXCEPT ![activeWke].tree = t.data \cup {<<t.conn, t.pc>>}]
  /\ tasks' = tasks \ {t}
  /\ UNCHANGED <<activeWke, activeConn, expanded, calls>>

(* loadChildNodes resumed: the tree read before the await, with the       *)
(* group's children added, is written back.                                *)
ChildNodesAnswered(t) ==
  /\ t.op = "load"
  /\ tmp' = [tmp EXCEPT ![t.wke].tree = t.data \cup {<<t.conn, t.pc>>}]
  /\ tasks' = tasks \ {t}
  /\ UNCHANGED <<activeWke, activeConn, expanded, calls>>

User == SwitchWorksheet \/ ChangeConnection \/ ToggleExpanded \/ FetchSchemas \/ LoadChildNodes

Resume == \/ \E t \in tasks : SchemasAnswered(t)
          \/ \E t \in tasks : GroupAnswered(t)
          \/ \E t \in tasks : ChildNodesAnswered(t)

Next == User \/ Resume

(* Every query is answered and every suspended call resumes; the user     *)
(* owes nothing.                                                           *)
Spec == Init /\ [][Next]_vars /\ WF_vars(Resume)

-----------------------------------------------------------------------------
Parts == Conns \X (Groups \cup {Root})
Task == [id : 0 .. MaxCalls - 1, op : {"fetch", "load"}, wke : Wke, conn : Conns, pc : Groups \cup {"query", "expand"},
         data : SUBSET Parts, todo : SUBSET Groups, from : Wke]

TypeOK ==
  /\ activeWke \in Wke
  /\ \A w \in Wke : activeConn[w] \in ConnsOf[w]
  /\ expanded \in [Wke -> SUBSET Groups]
  /\ tmp \in [Wke -> [loading : BOOLEAN, tree : SUBSET Parts, treeOfConn : Conns \cup {NoConn}]]
  /\ tasks \subseteq Task
  /\ calls \in 0 .. MaxCalls

(* A worksheet's tree and its db_tree_of_conn only name connections of    *)
(* that worksheet, although fetchSchemas and loadChildNodes write them     *)
(* after an await during which the user may switch worksheet.              *)
TreeOfOwnWorksheet ==
  \A w \in Wke : /\ \A p \in tmp[w].tree : p[1] \in ConnsOf[w]
                 /\ tmp[w].treeOfConn \in ConnsOf[w] \cup {NoConn}

(* Every part of a worksheet's tree was fetched on the connection its     *)
(* db_tree_of_conn names: a loadChildNodes answered after a newer          *)
(* fetchSchemas must not bring back the tree it read before its await.     *)
TreeOfOneConn ==
  \A w \in Wke : \A p \in tmp[w].tree : p[1] = tmp[w].treeOfConn

(* The node groups fetchSchemas restores are the expanded nodes of the    *)
(* worksheet whose tree it rebuilds (the "fetch expanded_nodes" loop).     *)
ExpandedOfOwnWorksheet ==
  \A t \in tasks : t.op = "fetch" /\ t.pc = "expand" => t.from = t.wke

(* Whenever a worksheet's loading_db_tree is set, it is cleared later:    *)
(* fetchSchemas resets it on every path once its query is answered.        *)
LoadingEventuallyCleared ==
  \A w \in Wke : tmp[w].loading ~> ~tmp[w].loading

=============================================================================
