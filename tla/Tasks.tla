------------------------------- MODULE Tasks -------------------------------
(***************************************************************************)
(* Tasks and subtasks: src/modules/tasks/service.ts over                   *)
(* src/modules/tasks/repo.ts.  Every operation takes advisory lock 7240    *)
(* before it reads (lockTasks), so an operation is one action; what is     *)
(* hard is the sequences: a hierarchy of depth one that completion, trash, *)
(* moves and their undoing by operation id change in any order.            *)
(*                                                                         *)
(* A request carries the revision its sender read; a stale one changes     *)
(* nothing, so an action is enabled for the current revision.  Operation   *)
(* ids are fresh uuids: an id that no row refers to any more is free.      *)
(***************************************************************************)
EXTENDS Integers, FiniteSets
LOCAL INSTANCE FiniteSetsExt

CONSTANTS
  Task,         \* task ids
  Op,           \* ids of deletions and completions
  None,         \* SQL null
  OpenStatus,   \* the statuses a task may be set to
  MaxWrites     \* bound: rows are written at most this often after their creation

ASSUME IdAssumption == None \notin Task /\ None \notin Op /\ IsFiniteSet(Task)
ASSUME StatusAssumption ==
  /\ "completed" \notin OpenStatus
  /\ {"inbox", "next_action"} \subseteq OpenStatus
ASSUME BoundAssumption == MaxWrites \in Nat

VARIABLES
  row,          \* the tasks table, a function on the ids inserted so far
  completion,   \* task_completions with their items, a function on the completions recorded
  asWas,        \* history: the statuses before each completion of the tasks it wrote
  changed       \* history: those of them written again since

vars == <<row, completion, asWas, changed>>

Status == OpenStatus \cup {"completed"}

Row == [status: Status, parent: Task \cup {None}, order: Nat, revision: Nat \ {0},
        deletedOp: Op \cup {None}]

Item == [task: Task, previous: Status, revision: Nat]

Completion == [root: Task, undone: BOOLEAN, items: SUBSET Item]

Exists == DOMAIN row

TypeOK ==
  /\ Exists \subseteq Task /\ row \in [Exists -> Row]
  /\ \A t \in Exists : row[t].parent \in Exists \cup {None}
  /\ DOMAIN completion \subseteq Op
  /\ completion \in [DOMAIN completion -> Completion]
  /\ \A op \in DOMAIN completion : \A item \in completion[op].items : item.task \in Exists
  /\ changed \in [DOMAIN completion -> SUBSET Task]
  /\ DOMAIN asWas = DOMAIN completion

Init ==
  /\ row = [t \in {} |-> None]
  /\ completion = [op \in {} |-> None]
  /\ asWas = [op \in {} |-> None]
  /\ changed = [op \in {} |-> {}]

-----------------------------------------------------------------------------
Live == {t \in Exists : row[t].deletedOp = None}

Top(t) == row[t].parent = None

\* selectChildren, with and without the trash.
Children(t) == {c \in Exists : row[c].parent = t}
LiveChildren(t) == Children(t) \cap Live

Open(t) == row[t].status # "completed"

\* Mutant of NextOrder: the number of siblings.
NextOrderIsCount(p) == Cardinality(Children(p))

\* max(sort_order) + 1 over the siblings, trash included.
NextOrder(p) ==
  LET orders == {row[c].order : c \in Children(p)}
  IN CHOOSE n \in orders \cup {m + 1 : m \in orders} \cup {0} :
       n \notin orders /\ \A m \in orders : m < n

Fresh(op) ==
  /\ op \notin DOMAIN completion
  /\ \A t \in Exists : row[t].deletedOp # op

\* updateEntity stamps every row it writes with a new revision.
Stamp(r) == [r EXCEPT !.revision = @ + 1]

Written == MapThenSumSet(LAMBDA t : row[t].revision - 1, Exists)

Writable(S) == Written + Cardinality(S) <= MaxWrites

Touched(S) == [op \in DOMAIN completion |-> changed[op] \cup (S \cap DOMAIN asWas[op])]

\* Write new[t] to each row t of its domain, under a new revision.
Write(new) ==
  /\ Writable(DOMAIN new)
  /\ row' = [t \in Exists |-> IF t \in DOMAIN new THEN Stamp(new[t]) ELSE row[t]]
  /\ changed' = Touched(DOMAIN new)

-----------------------------------------------------------------------------
(* Creating, editing, arranging                                            *)

\* createTask, and each subtask of an applied breakdown.
Create(t, p, s) ==
  /\ t \in Task \ Exists
  /\ p # None => p \in Live /\ Top(p)
  /\ row' = [u \in Exists \cup {t} |->
       IF u # t THEN row[u]
       ELSE [status |-> s, parent |-> p, order |-> NextOrder(p), revision |-> 1,
             deletedOp |-> None]]
  /\ UNCHANGED <<completion, asWas, changed>>

\* patchTask: any field; a status is an open one.
Patch(t, s) ==
  /\ t \in Live
  /\ s = "completed" => row[t].status = "completed"
  /\ Write([u \in {t} |-> [row[u] EXCEPT !.status = s]])
  /\ UNCHANGED <<completion, asWas>>

\* reopenTask, whatever the status was.
Reopen(t) ==
  /\ t \in Live
  /\ Write([u \in {t} |-> [row[u] EXCEPT !.status = "next_action"]])
  /\ UNCHANGED <<completion, asWas>>

\* Mutant of MayMove: only the children outside the trash are looked at.
MayMoveIfNoLiveChild(t, p) == p # None => /\ p \in Live /\ Top(p) /\ p # t
                                          /\ LiveChildren(t) = {}

\* moveTask: a new parent is live and top-level, and t has no children, not even in the trash.
MayMove(t, p) == p # None => /\ p \in Live /\ Top(p) /\ p # t
                             /\ Children(t) = {}

Move(t, p) ==
  /\ t \in Live /\ MayMove(t, p)
  /\ Write([u \in {t} |-> [row[u] EXCEPT !.parent = p, !.order = NextOrder(p)]])
  /\ UNCHANGED <<completion, asWas>>

\* The orders 0 .. n - 1 given to the n tasks of S.
Orders(S) == {f \in [S -> 0 .. Cardinality(S) - 1] : \A c, d \in S : f[c] = f[d] => c = d}

\* groupTasks: a new parent for at least two top-level tasks without children.
Group(t, S) ==
  /\ t \in Task \ Exists
  /\ Cardinality(S) >= 2
  /\ S \subseteq Live /\ \A c \in S : Top(c) /\ Children(c) = {}
  /\ Writable(S)
  /\ \E f \in Orders(S) :
       row' = [u \in Exists \cup {t} |->
         IF u = t THEN [status |-> "inbox", parent |-> None, order |-> NextOrder(None),
                        revision |-> 1, deletedOp |-> None]
         ELSE IF u \in S THEN Stamp([row[u] EXCEPT !.parent = t, !.order = f[u]])
         ELSE row[u]]
  /\ changed' = Touched(S)
  /\ UNCHANGED <<completion, asWas>>

\* Mutant of Reorder: the hand-written update leaves the revision out.
ReorderSilently(p) ==
  /\ p \in Exists /\ Cardinality(LiveChildren(p)) >= 2
  /\ \E f \in Orders(LiveChildren(p)) :
       row' = [t \in Exists |->
         IF t \in LiveChildren(p) THEN [row[t] EXCEPT !.order = f[t]] ELSE row[t]]
  /\ changed' = Touched(LiveChildren(p))
  /\ UNCHANGED <<completion, asWas>>

\* reorderTasks: all live children of a parent, in a given order.
Reorder(p) ==
  /\ p \in Exists /\ Cardinality(LiveChildren(p)) >= 2
  /\ \E f \in Orders(LiveChildren(p)) :
       Write([u \in LiveChildren(p) |-> [row[u] EXCEPT !.order = f[u]]])
  /\ UNCHANGED <<completion, asWas>>

-----------------------------------------------------------------------------
(* Completion and its undoing                                              *)

\* The item completeRow records: the state before, the revision after.
ItemOf(t) == [task |-> t, previous |-> row[t].status, revision |-> row[t].revision + 1]

\* completeTask: with force, or without open children.
Complete(t, op) ==
  /\ t \in Live /\ Fresh(op)
  /\ LET done == {c \in LiveChildren(t) : Open(c)} \cup {t} IN
     /\ Writable(done)
     /\ row' = [u \in Exists |->
          IF u \in done THEN Stamp([row[u] EXCEPT !.status = "completed"]) ELSE row[u]]
     /\ completion' = [o \in (DOMAIN completion) \cup {op} |->
          IF o # op THEN completion[o]
          ELSE [root |-> t, undone |-> FALSE, items |-> {ItemOf(u) : u \in done}]]
     /\ changed' = [o \in (DOMAIN completion) \cup {op} |->
          IF o # op THEN Touched(done)[o] ELSE {}]
     /\ asWas' = [o \in (DOMAIN completion) \cup {op} |->
          IF o # op THEN asWas[o] ELSE [u \in done |-> row[u].status]]

\* Mutant of Undoable: the revision is not compared.
UndoableByStatus(op) ==
  \A item \in completion[op].items : row[item.task].status = "completed"

\* undoCompleteTask checks every row before it writes any.
Undoable(op) ==
  \A item \in completion[op].items :
    row[item.task].status = "completed" /\ row[item.task].revision = item.revision

UndoComplete(op) ==
  /\ op \in DOMAIN completion /\ ~ completion[op].undone
  /\ Undoable(op)
  /\ LET items == completion[op].items
         previous(u) == (CHOOSE item \in items : item.task = u).previous
     IN Write([u \in {item.task : item \in items} |-> [row[u] EXCEPT !.status = previous(u)]])
  /\ completion' = [completion EXCEPT ![op].undone = TRUE]
  /\ UNCHANGED asWas

-----------------------------------------------------------------------------
(* Trash                                                                   *)

\* The rows removeTask deletes under one operation id.
Removed(t) == {t} \cup LiveChildren(t)

Remove(t, op) ==
  /\ t \in Live /\ Fresh(op)
  /\ Write([u \in Removed(t) |-> [row[u] EXCEPT !.deletedOp = op]])
  /\ UNCHANGED <<completion, asWas>>

\* Mutant of Restorable: the parent is not looked at.
RestorableAnyway(t, op) == t \in Exists /\ op # None /\ row[t].deletedOp = op

\* restoreTask: by its operation id, and not below a parent in the trash.
Restorable(t, op) ==
  /\ t \in Exists /\ op # None /\ row[t].deletedOp = op
  /\ Top(t) \/ row[t].parent \in Live

\* Mutant of Returning: every subtask in the trash.
ReturningAll(t, op) == Children(t) \ Live

\* The subtasks that come back with t.
Returning(t, op) == {c \in Children(t) : row[c].deletedOp = op}

\* The task comes last among its siblings; then each child of the same operation in turn.
Restore(t, op) ==
  /\ Restorable(t, op)
  /\ LET back == Returning(t, op)
         rank(c) == Cardinality({b \in back : row[b].order < row[c].order})
         place(u) == IF u = t THEN NextOrder(row[t].parent) ELSE NextOrder(t) + rank(u)
     IN Write([u \in {t} \cup back |->
                 [row[u] EXCEPT !.deletedOp = None, !.order = place(u)]])
  /\ UNCHANGED <<completion, asWas>>

-----------------------------------------------------------------------------
Edit(t) ==
  \/ \E s \in OpenStatus : \E p \in Live \cup {None} : Create(t, p, s)
  \/ \E s \in Status : Patch(t, s)
  \/ Reopen(t)
  \/ \E p \in Live \cup {None} : Move(t, p)
  \/ \E S \in SUBSET Live : Group(t, S)
  \/ Reorder(t)

Operate(t, op) == Complete(t, op) \/ Remove(t, op) \/ Restore(t, op)

Next ==
  \/ \E t \in Task : Edit(t) \/ \E op \in Op : Operate(t, op)
  \/ \E op \in Op : UndoComplete(op)

Spec == Init /\ [][Next]_vars

-----------------------------------------------------------------------------
(* Properties                                                              *)

\* A subtask has no subtasks and no task is its own parent, in the trash as well (TASKS-I01,
\* I02): the database trigger is never the one to refuse.
DepthOne ==
  \A t \in Exists : row[t].parent # None => row[t].parent # t /\ Top(row[t].parent)

\* No task is live below a parent in the trash, whatever was deleted, restored, moved or grouped
\* before (TASKS-I04).
LiveBelowLive == \A t \in Live : Top(t) \/ row[t].parent \in Live

\* Live siblings have different positions, through trash and restore, moves, groups and reorders
\* (TASKS-I05): the deferred exclusion constraint never fires at commit.
PositionsUnique ==
  \A t, u \in Live : row[t].parent = row[u].parent /\ row[t].order = row[u].order => t = u

\* A row that still has the revision a completion gave it was not written since, so the fence of
\* Undo never overwrites later work (TASKS-B02).
FenceMeansUntouched ==
  \A op \in DOMAIN completion : \A item \in completion[op].items :
    row[item.task].revision = item.revision =>
      item.task \notin changed[op] /\ row[item.task].status = "completed"

\* Undo gives every row the completion changed the status it had before, and touches no other.
UndoIsExact ==
  [][\A op \in DOMAIN completion :
       completion'[op].undone /\ ~ completion[op].undone =>
         \A t \in Exists :
           IF t \in DOMAIN asWas[op]
           THEN row'[t].status = asWas[op][t] /\ t \notin changed[op]
           ELSE row'[t] = row[t]]_vars

\* A restore brings back every row its deletion took, and none that was deleted by another
\* operation (TASKS-I04).
RestoreIsExact ==
  [][\A op \in Op :
       LET Taken == {t \in Exists : row[t].deletedOp = op}
           Back == {t \in Exists : row[t].deletedOp # None /\ row'[t].deletedOp = None}
       IN Back \cap Taken # {} => Back = Taken]_vars
=============================================================================
