------------------------------ MODULE ErdTasks ------------------------------
(***************************************************************************)
(* The ERD task actions of the query workspace                             *)
(* (src/maxgui/workspace/src/store/orm/modules/erdTasks.js).               *)
(*                                                                         *)
(* An ErdTask has the id of its worksheet and a count, the n of its        *)
(* worksheet's name "ERD n".  ErdTask.query() lists the tasks in the order *)
(* they were inserted, so `tasks` is a sequence.  A worksheet's name is    *)
(* abstracted to that count (0: not named by initErdEntities).             *)
(*                                                                         *)
(* cascadeDelete awaits QueryConn's disconnect inside its loop; a call     *)
(* suspended there is a record in `deleting`.  The loop iterations of ids  *)
(* without a connection do not await and run in the same step.             *)
(***************************************************************************)
EXTENDS Naturals, Sequences, SequencesExt

CONSTANTS
  Wke,          \* worksheets
  MaxCalls      \* bound on the initErdEntities and cascadeDelete calls

VARIABLES
  tasks,        \* ErdTask: <<[id, count], ...>> in insertion order
  tmps,         \* the ids of the ErdTaskTmp records
  conns,        \* the ids of the ErdTasks that have a QueryConn
  erdOf,        \* erdOf[w]: Worksheet w's erd_task_id is set
  names,        \* names[w]: the n of w's name "ERD n", 0 if none
  deleting,     \* the cascadeDelete calls suspended at their await
  calls         \* calls made so far

vars == <<tasks, tmps, conns, erdOf, names, deleting, calls>>

TaskIds == {tasks[i].id : i \in DOMAIN tasks}

Init ==
  /\ tasks = <<>>
  /\ tmps = {}
  /\ conns = {}
  /\ erdOf = [w \in Wke |-> FALSE]
  /\ names = [w \in Wke |-> 0]
  /\ deleting = {}
  /\ calls = 0

-----------------------------------------------------------------------------
(* insertErdTask: ErdTask and ErdTaskTmp records with the worksheet's id. *)
InsertErdTask(wkeId, count) ==
  /\ tasks' = Append(tasks, [id |-> wkeId, count |-> count])
  /\ tmps' = tmps \cup {wkeId}

(* Mutant: the + 1 is dropped. *)
NextCountNoIncrement == IF tasks = <<>> THEN 0 ELSE Last(tasks).count

(* Mutant: the count is taken from the first task instead of the last. *)
NextCountFirst == IF tasks = <<>> THEN 1 ELSE Head(tasks).count + 1

(* count: $typy(ErdTask.query().last(), 'count').safeNumber + 1. *)
NextCount == IF tasks = <<>> THEN 1 ELSE Last(tasks).count + 1

(* initErdEntities for the active worksheet: insert a task if it has none, *)
(* then name the worksheet "ERD count" whether or not a task was inserted. *)
InitErdEntities ==
  /\ calls < MaxCalls
  /\ \E wkeId \in Wke :
       /\ IF wkeId \notin TaskIds THEN InsertErdTask(wkeId, NextCount)
                                  ELSE UNCHANGED <<tasks, tmps>>
       /\ erdOf' = [erdOf EXCEPT ![wkeId] = TRUE]
       /\ names' = [names EXCEPT ![wkeId] = NextCount]
  /\ calls' = calls + 1
  /\ UNCHANGED <<conns, deleting>>

(* The ERD worksheet opens a connection (QueryConn with erd_task_id). *)
Connect ==
  /\ \E id \in TaskIds \ conns : conns' = conns \cup {id}
  /\ UNCHANGED <<tasks, tmps, erdOf, names, deleting, calls>>

(* ErdTask.delete(id) and ErdTaskTmp.delete(id) of the ids in `done`. *)
DeleteTasks(done) ==
  /\ tasks' = SelectSeq(tasks, LAMBDA t : t.id \notin done)
  /\ tmps' = tmps \ done

(* The loop of cascadeDelete run from `todo` up to its next await, after *)
(* the ids in `gone` were deleted: the ids before the first one with a     *)
(* connection are deleted in the same step.                                 *)
RunLoop(c, gone, todo) ==
  LET waits == {i \in DOMAIN todo : todo[i] \in conns}
  IN
  \E k \in {IF waits = {} THEN 0 ELSE Min(waits)} :
    /\ DeleteTasks(gone \cup IF k = 0 THEN ToSet(todo) ELSE ToSet(SubSeq(todo, 1, k - 1)))
    /\ deleting' = (deleting \ {c}) \cup
                     IF k = 0 THEN {} ELSE {[c EXCEPT !.todo = SubSeq(todo, k, Len(todo))]}

(* cascadeDelete: the ids of the ErdTasks the payload selects, in order. *)
CascadeDelete ==
  /\ calls < MaxCalls
  /\ \E sel \in SUBSET TaskIds \ {{}} :
       RunLoop([call |-> calls, todo |-> <<>>], {},
               SelectSeq([i \in DOMAIN tasks |-> tasks[i].id], LAMBDA id : id \in sel))
  /\ calls' = calls + 1
  /\ UNCHANGED <<conns, erdOf, names>>

(* disconnect answered: the connection is gone, ErdTask.delete and        *)
(* ErdTaskTmp.delete remove the task, and the loop goes on.                *)
Disconnected(c) ==
  /\ conns' = conns \ {Head(c.todo)}
  /\ RunLoop(c, {Head(c.todo)}, Tail(c.todo))
  /\ UNCHANGED <<erdOf, names, calls>>

Next ==
  \/ InitErdEntities \/ Connect \/ CascadeDelete
  \/ \E c \in deleting : Disconnected(c)

Spec == Init /\ [][Next]_vars

-----------------------------------------------------------------------------
TypeOK ==
  /\ tasks \in Seq([id : Wke, count : Nat \ {0}])
  /\ tmps \subseteq Wke /\ conns \subseteq Wke
  /\ erdOf \in [Wke -> BOOLEAN] /\ names \in [Wke -> Nat]
  /\ \A c \in deleting : c.todo \in Seq(Wke) /\ c.todo # <<>>
  /\ calls \in 0 .. MaxCalls

(* No two ErdTasks have the same count, however tasks are inserted and    *)
(* deleted: the count taken from the last task inserted stays above the   *)
(* counts of the tasks still there.                                         *)
DistinctErdCounts ==
  \A i, j \in DOMAIN tasks : i # j => tasks[i].count # tasks[j].count

(* No two worksheets initErdEntities has named get the same "ERD n".       *)
DistinctErdNames ==
  \A v, w \in Wke : v # w /\ names[v] # 0 => names[v] # names[w]

=============================================================================
