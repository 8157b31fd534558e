-------------------------------- MODULE Kpis --------------------------------
(***************************************************************************)
(* One KPI with its readings and targets under concurrent requests:        *)
(* src/modules/kpis/service.ts over src/modules/kpis/repo.ts.              *)
(*                                                                         *)
(* A request is one READ COMMITTED transaction.  Its unlocked reads are    *)
(* steps of their own; what it does from the lock or the first write on is *)
(* one step with its commit, unless another request can come in between.   *)
(* An operation id of the KPI is known by the revision its deletion wrote; *)
(* 0 stands for the operation ids of rows that were deleted on their own,  *)
(* by which nothing is ever restored.                                      *)
(***************************************************************************)
EXTENDS Integers, Sequences

CONSTANTS
  None,          \* SQL null, and no request
  Client,        \* the requests that run at the same time
  Key,           \* reading dates, and periods of targets
  MaxRows,       \* bound: readings and targets ever inserted
  MaxRevision    \* bound: revisions of the KPI and of a reading

ASSUME BoundAssumption == MaxRows \in Nat /\ MaxRevision \in Nat \ {0}
ASSUME ClientAssumption == None \notin Client

VARIABLES
  kpi,     \* the KPI's row
  child,   \* kpi_readings and kpi_targets, in the order of insertion
  txn,     \* what each open request has read
  lock,    \* the request that holds the KPI's row FOR UPDATE
  failed,  \* history: the server errors answered so far
  gone     \* history: the children whose own deletion was answered

vars == <<kpi, child, txn, lock, failed, gone>>

Kind == {"reading", "target"}

Child == [kind: Kind, key: Key, revision: 1 .. MaxRevision + 1, deletedOp: Nat \cup {None}]

Rows == DOMAIN child

ReadingOp == {"addReading", "overwriteReading", "patchReading", "removeReading"}
RequestOp == ReadingOp \cup {"putTargets", "removeTarget", "patchKpi", "removeKpi"}

Request == [op: RequestOp, at: {"checked", "read", "locked"}, key: Key \cup {None},
            row: 0 .. MaxRows, seen: 0 .. MaxRevision + 1]

ASSUME NoneAssumption == None \notin Nat /\ None \notin Request

TypeOK ==
  /\ kpi \in [revision: 1 .. MaxRevision + 1, deletedOp: (1 .. MaxRevision + 1) \cup {None}]
  /\ child \in Seq(Child) /\ Len(child) <= MaxRows
  /\ txn \in [Client -> Request \cup {None}]
  /\ lock \in Client \cup {None}
  /\ lock # None => txn[lock] # None /\ txn[lock].at = "locked"
  /\ failed \subseteq {"insert", "restore"}
  /\ gone \subseteq Rows

Init ==
  /\ kpi = [revision |-> 1, deletedOp |-> None]
  /\ child = <<>>
  /\ txn = [c \in Client |-> None]
  /\ lock = None
  /\ failed = {}
  /\ gone = {}

-----------------------------------------------------------------------------
KpiLive == kpi.deletedOp = None

Live == {i \in Rows : child[i].deletedOp = None}

\* selectReadingOn, and the arbiter of the targets' upsert.
LiveOn(kind, key) == {i \in Live : child[i].kind = kind /\ child[i].key = key}

\* getKpi, the first statement of every request; in the trash it answers 404 and nothing happens.
Begin(c, op, key, row) ==
  /\ txn[c] = None /\ KpiLive
  /\ txn' = [txn EXCEPT ![c] =
       [op |-> op, at |-> "checked", key |-> key, row |-> row,
        seen |-> IF op \in {"patchKpi", "removeKpi"} THEN kpi.revision ELSE 0]]
  /\ UNCHANGED <<kpi, child, lock, failed, gone>>

At(c, op, at) == txn[c] # None /\ txn[c].op = op /\ txn[c].at = at

\* The transaction ends, by commit or by rollback, and lets go of the row.
Finish(c, errors) ==
  /\ txn' = [txn EXCEPT ![c] = None]
  /\ lock' = IF lock = c THEN None ELSE lock
  /\ failed' = failed \cup errors

\* It ends with an answer of the 4xx kind, or with a server error, and leaves nothing behind.
Refuse(c, errors) == Finish(c, errors) /\ UNCHANGED <<kpi, child, gone>>

-----------------------------------------------------------------------------
(* Readings                                                                *)

\* The row on this date, if any, as the request reads it under its lock.
ReadOn(c) ==
  LET found == LiveOn("reading", txn[c].key)
      row == IF found = {} THEN 0 ELSE CHOOSE i \in found : TRUE
  IN txn' = [txn EXCEPT ![c].at = "locked", ![c].row = row,
                        ![c].seen = IF row = 0 THEN 0 ELSE child[row].revision]

\* Mutant of LockKpi: the statement takes no lock.
LockNothing(c) ==
  /\ At(c, "addReading", "checked") \/ At(c, "overwriteReading", "checked")
  /\ ReadOn(c)
  /\ UNCHANGED <<kpi, child, lock, failed, gone>>

\* lockKpi and selectReadingOn: the KPI's row, whether or not it is in the trash by now.
LockKpi(c) ==
  /\ At(c, "addReading", "checked") \/ At(c, "overwriteReading", "checked")
  /\ lock = None /\ lock' = c
  /\ ReadOn(c)
  /\ UNCHANGED <<kpi, child, failed, gone>>

\* Mutant of Answers: the answer is made of what the request wrote.
AnswersAnyway == TRUE

\* getKpiDetail, the last read of a request that answers with the KPI: in the trash by now it is a
\* 404, and what the request wrote is rolled back.
Answers == KpiLive

\* insertReading, refused by the unique index on a date that has a live reading.
InsertReading(c) ==
  IF LiveOn("reading", txn[c].key) # {} THEN Refuse(c, {"insert"})
  ELSE IF ~ Answers THEN Refuse(c, {})
  ELSE /\ Len(child) < MaxRows
       /\ child' = Append(child, [kind |-> "reading", key |-> txn[c].key, revision |-> 1,
                                  deletedOp |-> None])
       /\ Finish(c, {})
       /\ UNCHANGED <<kpi, gone>>

AddReading(c) ==
  /\ At(c, "addReading", "locked")
  /\ IF txn[c].row # 0 THEN Refuse(c, {}) ELSE InsertReading(c)

\* updateEntity on a reading: by id and revision alone, whether or not the row is in the trash.
Matches(c) == child[txn[c].row].revision = txn[c].seen

\* Bound.
Stamp(c) == child[txn[c].row].revision <= MaxRevision

\* A new value.
UpdateReading(c) ==
  IF ~ Matches(c) \/ ~ Answers THEN Refuse(c, {})
  ELSE /\ Stamp(c)
       /\ child' = [child EXCEPT ![txn[c].row].revision = @ + 1]
       /\ Finish(c, {})
       /\ UNCHANGED <<kpi, gone>>

\* The row it found is updated; without one it is addReading, which reads the KPI once more.
OverwriteReading(c) ==
  /\ At(c, "overwriteReading", "locked")
  /\ IF txn[c].row # 0 THEN UpdateReading(c)
     ELSE IF ~ KpiLive THEN Refuse(c, {})
     ELSE IF LiveOn("reading", txn[c].key) # {} THEN Refuse(c, {})
     ELSE InsertReading(c)

\* requireReading of patchReading and removeReading; neither locks the KPI.
RequireReading(c) ==
  /\ At(c, "patchReading", "checked") \/ At(c, "removeReading", "checked")
  /\ LET i == txn[c].row IN
     IF i \notin Live THEN Refuse(c, {})
     ELSE /\ txn' = [txn EXCEPT ![c].at = "read", ![c].seen = child[i].revision]
          /\ UNCHANGED <<kpi, child, lock, failed, gone>>

PatchReading(c) ==
  At(c, "patchReading", "read") /\ UpdateReading(c)

\* Mutant of RemoveReading: the row is stamped as hideChildren stamps it, without a revision.
RemoveReadingUnstamped(c) ==
  /\ At(c, "removeReading", "read")
  /\ child' = [child EXCEPT ![txn[c].row].deletedOp = 0]
  /\ gone' = gone \cup {txn[c].row}
  /\ Finish(c, {})
  /\ UNCHANGED kpi

\* It does not read the KPI again.
RemoveReading(c) ==
  /\ At(c, "removeReading", "read")
  /\ IF ~ Matches(c) THEN Refuse(c, {})
     ELSE /\ Stamp(c)
          /\ child' = [child EXCEPT ![txn[c].row].revision = @ + 1, ![txn[c].row].deletedOp = 0]
          /\ gone' = gone \cup {txn[c].row}
          /\ Finish(c, {})
          /\ UNCHANGED kpi

-----------------------------------------------------------------------------
(* Targets                                                                 *)

\* lockKpi and upsertTargets: a live row of the period is overwritten in place.
PutTargets(c) ==
  /\ At(c, "putTargets", "checked") /\ lock = None
  /\ IF ~ Answers THEN Refuse(c, {})
     ELSE /\ IF LiveOn("target", txn[c].key) # {} THEN UNCHANGED child
             ELSE /\ Len(child) < MaxRows
                  /\ child' = Append(child, [kind |-> "target", key |-> txn[c].key,
                                             revision |-> 1, deletedOp |-> None])
          /\ Finish(c, {})
          /\ UNCHANGED <<kpi, gone>>

\* deleteTarget: only a row outside the trash.
RemoveTarget(c) ==
  /\ At(c, "removeTarget", "checked")
  /\ LET i == txn[c].row IN
     IF i \notin Live THEN Refuse(c, {})
     ELSE /\ child' = [child EXCEPT ![i].deletedOp = 0]
          /\ gone' = gone \cup {i}
          /\ Finish(c, {})
          /\ UNCHANGED kpi

-----------------------------------------------------------------------------
(* The KPI itself                                                          *)

\* applyUpdate compares the revision that was read; the update waits for the row's lock.
Changes(c) == lock = None /\ kpi.revision = txn[c].seen /\ kpi.revision <= MaxRevision

Outdated(c) == lock = None /\ kpi.revision # txn[c].seen

PatchKpi(c) ==
  /\ At(c, "patchKpi", "checked")
  /\ \/ Outdated(c) /\ Refuse(c, {})
     \/ /\ Changes(c)
        /\ kpi' = [kpi EXCEPT !.revision = @ + 1]
        /\ Finish(c, {})
        /\ UNCHANGED <<child, gone>>

\* hideChildren: the live rows of both tables, without a new revision.
Hidden(op) == [i \in Rows |-> IF i \in Live THEN [child[i] EXCEPT !.deletedOp = op] ELSE child[i]]

RemoveKpi(c) ==
  /\ At(c, "removeKpi", "checked")
  /\ \/ Outdated(c) /\ Refuse(c, {})
     \/ /\ Changes(c)
        /\ LET op == kpi.revision + 1 IN
           /\ kpi' = [revision |-> op, deletedOp |-> op]
           /\ child' = Hidden(op)
        /\ Finish(c, {})
        /\ UNCHANGED gone

\* Mutant of Revealed: the targets stay hidden.
RevealedReadings(op) ==
  [i \in Rows |-> IF child[i].deletedOp = op /\ child[i].kind = "reading"
                  THEN [child[i] EXCEPT !.deletedOp = None] ELSE child[i]]

\* revealChildren.
Revealed(op) ==
  [i \in Rows |-> IF child[i].deletedOp = op
                  THEN [child[i] EXCEPT !.deletedOp = None] ELSE child[i]]

\* The unique indexes on live readings and live targets.
Unique(rows) ==
  \A i, j \in DOMAIN rows :
    rows[i].deletedOp = None /\ rows[j].deletedOp = None
      /\ rows[i].kind = rows[j].kind /\ rows[i].key = rows[j].key => i = j

\* restoreKpi: restoreEntity takes the row's lock; an index that refuses a child undoes it all.
RestoreKpi(c) ==
  /\ txn[c] = None /\ ~ KpiLive /\ lock = None
  /\ IF Unique(Revealed(kpi.deletedOp))
     THEN /\ kpi.revision <= MaxRevision
          /\ child' = Revealed(kpi.deletedOp)
          /\ kpi' = [revision |-> kpi.revision + 1, deletedOp |-> None]
          /\ UNCHANGED failed
     ELSE failed' = failed \cup {"restore"} /\ UNCHANGED <<kpi, child>>
  /\ UNCHANGED <<txn, lock, gone>>

-----------------------------------------------------------------------------
Ask(c) ==
  \/ \E key \in Key : \E op \in {"addReading", "overwriteReading", "putTargets"} :
       Begin(c, op, key, 0)
  \/ \E i \in Rows : child[i].kind = "reading"
       /\ \E op \in {"patchReading", "removeReading"} : Begin(c, op, None, i)
  \/ \E i \in Rows : child[i].kind = "target" /\ Begin(c, "removeTarget", None, i)
  \/ \E op \in {"patchKpi", "removeKpi"} : Begin(c, op, None, 0)

ReadingStep(c) ==
  LockKpi(c) \/ AddReading(c) \/ OverwriteReading(c) \/ RequireReading(c) \/ PatchReading(c)
    \/ RemoveReading(c)

KpiStep(c) == PatchKpi(c) \/ RemoveKpi(c) \/ RestoreKpi(c)

Next == \E c \in Client :
  Ask(c) \/ ReadingStep(c) \/ PutTargets(c) \/ RemoveTarget(c) \/ KpiStep(c)

Spec == Init /\ [][Next]_vars

-----------------------------------------------------------------------------
(* Properties                                                              *)

\* A second reading on a date is answered 409 with the row to overwrite, never by the index
\* (KPIS-B09), although the date is looked up before the insert.
IndexNeverAnswers == "insert" \notin failed

\* A live KPI shows every reading and target it was ever given, but for those deleted on their
\* own: trashing and restoring it loses none and brings no deleted one back (KPIS-I03).
LiveKpiShowsAll == KpiLive => Live = Rows \ gone

\* Once its own deletion is answered, a reading or target never changes again: no request that read
\* it before writes over it, and the KPI's trash and restore pass it by.
DeletedRowsRest == [][\A i \in gone : child'[i] = child[i]]_vars

\* "A restore of that operation brings back exactly the rows it hid" (hideChildren): no index ever
\* refuses it, because no reading or target is added to a KPI in the trash, although whether the
\* KPI is there is asked before its lock is taken.
RestoreIsPossible == "restore" \notin failed
=============================================================================
