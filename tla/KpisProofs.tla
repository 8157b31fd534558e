----------------------------- MODULE KpisProofs -----------------------------
(***************************************************************************)
(* What a KPI, its readings and its targets promise for any number of      *)
(* requests, dates, rows and revisions.                                    *)
(*                                                                         *)
(* The four properties rest on one picture of the rows: those deleted on   *)
(* their own are `gone`, and all others share the KPI's state (RowsFollow) *)
(* and differ in their dates (KeysDiffer).  A request keeps it because     *)
(* what it read is still true when it writes, or its revision shows that   *)
(* it is not (RequestFits), and what it read under the KPI's lock is true  *)
(* until it lets go of it (LockIsHeld).                                    *)
(***************************************************************************)
EXTENDS Kpis, KpiScore, TLAPS, WellFoundedInduction

\* A row is gone, or in the trash if and only if the KPI is, by the same operation.
RowsFollow ==
  /\ \A i \in gone : child[i].deletedOp = 0
  /\ \A i \in Rows \ gone : child[i].deletedOp = kpi.deletedOp

\* No two readings of a date, no two targets of a period, the KPI being in the trash or not.
KeysDiffer ==
  \A i, j \in Rows \ gone : child[i].kind = child[j].kind /\ child[i].key = child[j].key => i = j

\* A reading read since it was gone would carry a later revision.
ReadingFits(r) ==
  /\ r.op \in {"patchReading", "removeReading"} => r.row # 0
  /\ r.row # 0 => r.row \in Rows /\ child[r.row].kind = "reading"
  /\ r.row # 0 /\ r.at # "checked" =>
       /\ r.seen <= child[r.row].revision
       /\ r.seen = child[r.row].revision => r.row \notin gone
  /\ r.at = "locked" => r.op \in {"addReading", "overwriteReading"}
  /\ r.at = "locked" /\ r.row = 0 => LiveOn("reading", r.key) = {}

\* A KPI at the revision that was read is not in the trash.
KpiFits(r) ==
  r.seen <= kpi.revision /\ (r.seen = kpi.revision => KpiLive)

RequestFits(r) ==
  /\ r.op \in {"addReading", "overwriteReading", "putTargets"} => r.key \in Key
  /\ r.op \in ReadingOp => ReadingFits(r)
  /\ r.op \notin ReadingOp => r.at = "checked"
  /\ r.op = "removeTarget" => r.row \in Rows /\ child[r.row].kind = "target"
  /\ r.op \in {"patchKpi", "removeKpi"} => KpiFits(r)

RequestsFit == \A c \in Client : txn[c] # None => RequestFits(txn[c])

LockIsHeld == \A c \in Client : txn[c] # None /\ txn[c].at = "locked" => lock = c

IInv ==
  TypeOK /\ RowsFollow /\ KeysDiffer /\ RequestsFit /\ LockIsHeld /\ failed = {}

\* What DeletedRowsRest says of one step.
Rests == \A i \in gone : child'[i] = child[i]

LEMMA InitInv == Init => IInv
<1> SUFFICES ASSUME Init PROVE IInv
  OBVIOUS
<1>1. child = <<>> /\ Rows = {} /\ gone = {} /\ failed = {} /\ lock = None
  BY DEF Init, Rows
<1>2. \A c \in Client : txn[c] = None
  BY DEF Init
<1>3. kpi = [revision |-> 1, deletedOp |-> None]
  BY DEF Init
<1>4. TypeOK
  <2>1. child \in Seq(Child) /\ Len(child) = 0
    BY <1>1
  <2>2. txn \in [Client -> Request \cup {None}]
    BY DEF Init
  <2>3. kpi \in [revision: 1 .. MaxRevision + 1, deletedOp: (1 .. MaxRevision + 1) \cup {None}]
    BY <1>3, BoundAssumption
  <2> QED
    BY <1>1, <2>1, <2>2, <2>3, BoundAssumption DEF TypeOK
<1> QED
  BY <1>1, <1>2, <1>4 DEF IInv, RowsFollow, KeysDiffer, RequestsFit, LockIsHeld

-----------------------------------------------------------------------------
(* The requests                                                            *)

\* The rows of the table, as a function.
LEMMA RowTypes ==
  ASSUME IInv
  PROVE  /\ Len(child) \in Nat /\ Rows = 1 .. Len(child) /\ child \in [Rows -> Child]
         /\ \A i \in Rows : /\ child[i] \in Child /\ child[i].revision \in 1 .. MaxRevision + 1
                            /\ child[i].key \in Key /\ child[i].kind \in Kind
         /\ kpi.revision \in 1 .. MaxRevision + 1
         /\ kpi.deletedOp \in (1 .. MaxRevision + 1) \cup {None}
         /\ gone \subseteq Rows /\ MaxRevision \in Nat
<1>1. child \in Seq(Child)
  BY DEF IInv, TypeOK
<1>2. Len(child) \in Nat /\ Rows = 1 .. Len(child) /\ child \in [Rows -> Child]
  BY <1>1 DEF Rows
<1> QED
  BY <1>2, BoundAssumption DEF IInv, TypeOK, Child

\* A live KPI has no other rows in the trash than those that are gone, one in the trash no live row.
LEMMA LiveRows ==
  ASSUME IInv
  PROVE  Live = IF KpiLive THEN Rows \ gone ELSE {}
BY RowTypes, NoneAssumption DEF IInv, RowsFollow, Live, KpiLive

\* A step that leaves the rows alone: one request reads, or ends.
LEMMA ReadingStepInv ==
  ASSUME IInv, NEW c \in Client, NEW r \in Request \cup {None},
         UNCHANGED <<kpi, child, gone, failed>>, txn' = [txn EXCEPT ![c] = r],
         r # None => RequestFits(r),
         \/ r # None /\ r.at = "locked" /\ lock = None /\ lock' = c
         \/ (r = None \/ r.at # "locked") /\ lock' = (IF lock = c THEN None ELSE lock)
  PROVE  IInv' /\ Rests
<1>1. txn \in [Client -> Request \cup {None}] /\ lock \in Client \cup {None}
  BY DEF IInv, TypeOK
<1>2. txn'[c] = r /\ \A d \in Client \ {c} : txn'[d] = txn[d]
  BY <1>1
<1>3. RequestsFit'
  BY <1>2 DEF IInv, RequestsFit, RequestFits, ReadingFits, KpiFits, Rows, LiveOn, Live, KpiLive
<1>4. LockIsHeld'
  BY <1>1, <1>2, ClientAssumption DEF IInv, LockIsHeld
<1>5. lock' # None => txn'[lock'] # None /\ txn'[lock'].at = "locked"
  BY <1>1, <1>2, ClientAssumption DEF IInv, TypeOK
<1>6. txn' \in [Client -> Request \cup {None}] /\ lock' \in Client \cup {None}
  BY <1>1
<1>7. TypeOK'
  BY <1>5, <1>6 DEF IInv, TypeOK, Rows
<1> QED
  BY <1>3, <1>4, <1>7 DEF IInv, RowsFollow, KeysDiffer, Rows, Rests

LEMMA RefuseInv ==
  ASSUME IInv, NEW c \in Client, Refuse(c, {})
  PROVE  IInv' /\ Rests
<1>1. /\ UNCHANGED <<kpi, child, gone, failed>> /\ txn' = [txn EXCEPT ![c] = None]
      /\ lock' = IF lock = c THEN None ELSE lock
  BY DEF Refuse, Finish, IInv
<1> QED
  BY <1>1, ReadingStepInv

LEMMA BeginInv ==
  ASSUME IInv, NEW c \in Client, Ask(c)
  PROVE  IInv' /\ Rests
<1>1. PICK op \in RequestOp, key \in Key \cup {None}, row \in {0} \cup Rows :
        /\ Begin(c, op, key, row)
        /\ op \in {"patchReading", "removeReading"} => row # 0 /\ child[row].kind = "reading"
        /\ op \in {"addReading", "overwriteReading"} => row = 0
        /\ op = "removeTarget" => row # 0 /\ child[row].kind = "target"
        /\ op \in {"addReading", "overwriteReading", "putTargets"} => key \in Key
  <2>1. ASSUME NEW key \in Key, NEW op \in {"addReading", "overwriteReading", "putTargets"},
               Begin(c, op, key, 0)
        PROVE  /\ op \in RequestOp /\ key \in Key \cup {None} /\ 0 \in {0} \cup Rows
               /\ op \notin {"patchReading", "removeReading", "removeTarget"}
    BY <2>1 DEF RequestOp, ReadingOp
  <2>2. ASSUME NEW i \in Rows, NEW op \in {"patchReading", "removeReading"}
        PROVE  op \in RequestOp /\ i # 0
               /\ op \notin {"addReading", "overwriteReading", "putTargets", "removeTarget"}
    BY <2>2, RowTypes DEF RequestOp, ReadingOp
  <2>3. ASSUME NEW i \in Rows
        PROVE  i # 0 /\ "removeTarget" \in RequestOp
    BY <2>3, RowTypes DEF RequestOp
  <2>4. ASSUME NEW op \in {"patchKpi", "removeKpi"}
        PROVE  op \in RequestOp /\ op \notin ReadingOp /\ op # "removeTarget"
    BY <2>4 DEF RequestOp, ReadingOp
  <2>5. CASE \E key \in Key : \E op \in {"addReading", "overwriteReading", "putTargets"} :
               Begin(c, op, key, 0)
    BY <2>1, <2>5
  <2>6. CASE \E i \in Rows : child[i].kind = "reading"
               /\ \E op \in {"patchReading", "removeReading"} : Begin(c, op, None, i)
    BY <2>2, <2>6
  <2>7. CASE \E i \in Rows : child[i].kind = "target" /\ Begin(c, "removeTarget", None, i)
    BY <2>3, <2>7
  <2>8. CASE \E op \in {"patchKpi", "removeKpi"} : Begin(c, op, None, 0)
    BY <2>4, <2>8 DEF ReadingOp
  <2> QED
    BY <2>5, <2>6, <2>7, <2>8 DEF Ask
<1> DEFINE r == [op |-> op, at |-> "checked", key |-> key, row |-> row,
                 seen |-> IF op \in {"patchKpi", "removeKpi"} THEN kpi.revision ELSE 0]
<1>2. /\ txn[c] = None /\ KpiLive /\ txn' = [txn EXCEPT ![c] = r]
      /\ UNCHANGED <<kpi, child, lock, failed, gone>>
  BY <1>1 DEF Begin
<1>3. row \in 0 .. MaxRows
  BY RowTypes, BoundAssumption DEF IInv, TypeOK
<1>4. r \in Request /\ r.at = "checked"
  BY <1>3, RowTypes DEF Request
<1>5. RequestFits(r)
  BY <1>1, <1>2, RowTypes DEF RequestFits, ReadingFits, KpiFits, ReadingOp
<1>6. lock # c
  BY <1>2, ClientAssumption DEF IInv, TypeOK
<1> HIDE DEF r
<1> QED
  BY <1>2, <1>4, <1>5, <1>6, ReadingStepInv

LEMMA LockInv ==
  ASSUME IInv, NEW c \in Client, LockKpi(c)
  PROVE  IInv' /\ Rests
<1> DEFINE q == txn[c]
           found == LiveOn("reading", txn[c].key)
           row == IF found = {} THEN 0 ELSE CHOOSE i \in found : TRUE
           seen == IF row = 0 THEN 0 ELSE child[row].revision
<1>1. q \in Request /\ txn \in [Client -> Request \cup {None}]
  BY DEF LockKpi, At, IInv, TypeOK
<1>2. /\ q.op \in {"addReading", "overwriteReading"} /\ lock = None /\ lock' = c
      /\ UNCHANGED <<kpi, child, failed, gone>>
      /\ txn' = [txn EXCEPT ![c].at = "locked", ![c].row = row, ![c].seen = seen]
  BY DEF LockKpi, At, ReadOn
<1>3. row # 0 => row \in found /\ row \in Rows
  BY DEF LiveOn, Live
<1>4. row # 0 => row \in Live /\ child[row].kind = "reading"
  BY <1>3 DEF LiveOn
<1>5. row # 0 => row \notin gone
  BY <1>4, NoneAssumption DEF IInv, RowsFollow, Live
<1>6. row = 0 => found = {}
  <2>1. 0 \notin Rows
    BY RowTypes
  <2> QED
    BY <2>1 DEF LiveOn, Live
<1> HIDE DEF row, found
<1>7. row \in 0 .. MaxRows
  BY <1>3, RowTypes, BoundAssumption DEF IInv, TypeOK
<1>8. seen \in 0 .. MaxRevision + 1
  BY <1>3, RowTypes, BoundAssumption
<1> HIDE DEF seen
<1> DEFINE r == [q EXCEPT !.at = "locked", !.row = row, !.seen = seen]
<1>10. txn' = [txn EXCEPT ![c] = r]
  BY <1>1, <1>2
<1> HIDE DEF q
<1>11. /\ r \in Request /\ r.at = "locked" /\ r.row = row /\ r.op = q.op /\ r.key = q.key
       /\ r.seen = seen
  BY <1>1, <1>7, <1>8 DEF Request
<1> HIDE DEF r
<1>12. r.key \in Key
  BY <1>2, <1>11, NoneAssumption DEF q, IInv, RequestsFit, RequestFits, LockKpi, At
<1>9. RequestFits(r)
  <2>1. r.op \in {"addReading", "overwriteReading"}
    BY <1>2, <1>11
  <2>2. row = 0 => LiveOn("reading", r.key) = {}
    BY <1>6, <1>11 DEF found, q
  <2>3. row # 0 => /\ row \in Rows /\ child[row].kind = "reading" /\ row \notin gone
                   /\ r.seen = child[row].revision /\ child[row].revision \in Nat
    BY <1>3, <1>4, <1>5, <1>11, RowTypes DEF seen
  <2> QED
    BY <1>11, <1>12, <2>1, <2>2, <2>3 DEF RequestFits, ReadingFits, ReadingOp
<1> QED
  BY <1>2, <1>9, <1>10, <1>11, ReadingStepInv, NoneAssumption

LEMMA RequireInv ==
  ASSUME IInv, NEW c \in Client, RequireReading(c)
  PROVE  IInv' /\ Rests
<1>1. PICK q \in Request : txn[c] = q
  BY DEF RequireReading, At, IInv, TypeOK
<1>2. CASE q.row \notin Live
  BY <1>1, <1>2, RefuseInv DEF RequireReading
<1>3. CASE q.row \in Live
  <2> DEFINE seen == child[q.row].revision
             r == [q EXCEPT !.at = "read", !.seen = seen]
  <2>1. /\ q.op \in {"patchReading", "removeReading"} /\ q.at = "checked"
        /\ UNCHANGED <<kpi, child, lock, failed, gone>>
    BY <1>1, <1>3 DEF RequireReading, At
  <2>2. txn' = [txn EXCEPT ![c] = r]
    BY <1>1, <1>3 DEF RequireReading, IInv, TypeOK
  <2>3. q.row \in Rows /\ q.row \notin gone
    BY <1>3, NoneAssumption DEF IInv, RowsFollow, Live
  <2>4. ReadingFits(q)
    BY <1>1, <2>1, NoneAssumption DEF IInv, RequestsFit, RequestFits, ReadingOp
  <2>8. seen \in 0 .. MaxRevision + 1
    BY <2>3, RowTypes, BoundAssumption
  <2> HIDE DEF seen
  <2>5. r \in Request /\ r.at = "read" /\ r.row = q.row /\ r.op = q.op /\ r.seen = seen
    BY <1>1, <2>8 DEF Request
  <2> HIDE DEF r
  <2>6. RequestFits(r)
    BY <2>1, <2>3, <2>4, <2>5, RowTypes DEF RequestFits, ReadingFits, ReadingOp, seen
  <2>7. lock # c
    BY <1>1, <2>1, ClientAssumption DEF IInv, TypeOK
  <2> QED
    BY <2>1, <2>2, <2>5, <2>6, <2>7, ReadingStepInv
<1> QED
  BY <1>2, <1>3

-----------------------------------------------------------------------------
(* Writes                                                                  *)

\* What others have read stays in order when one request writes and ends: a row that changes gets
\* a later revision, or is a target, and no reading appears while another request has the lock.
LEMMA OthersFit ==
  ASSUME IInv, NEW c \in Client,
         txn' = [txn EXCEPT ![c] = None], lock' = (IF lock = c THEN None ELSE lock),
         kpi' = kpi \/ (kpi'.revision \in Nat /\ kpi'.revision > kpi.revision),
         Rows \subseteq Rows',
         \A i \in Rows :
           /\ child'[i].kind = child[i].kind /\ child'[i].revision \in Nat
           /\ \/ child'[i].revision > child[i].revision
              \/ /\ child'[i].revision = child[i].revision
                 /\ i \in gone' => i \in gone \/ child[i].kind = "target",
         lock \in {None, c} \/ \A key : LiveOn("reading", key)' \subseteq LiveOn("reading", key)
  PROVE  /\ RequestsFit' /\ LockIsHeld' /\ txn' \in [Client -> Request \cup {None}]
         /\ lock' \in Client \cup {None}
         /\ lock' # None => txn'[lock'] # None /\ txn'[lock'].at = "locked"
<1>1. txn \in [Client -> Request \cup {None}] /\ lock \in Client \cup {None}
  BY DEF IInv, TypeOK
<1>2. txn'[c] = None /\ \A d \in Client \ {c} : txn'[d] = txn[d]
  BY <1>1
<1>3. ASSUME NEW d \in Client, txn'[d] # None PROVE RequestFits(txn[d])'
  <2>1. d # c /\ txn'[d] = txn[d] /\ RequestFits(txn[d])
    BY <1>2, <1>3 DEF IInv, RequestsFit
  <2>2. PICK r \in Request : r = txn[d]
    BY <1>1, <1>3, <2>1
  <2>3. ReadingFits(r) => ReadingFits(r)'
    <3> SUFFICES ASSUME ReadingFits(r) PROVE ReadingFits(r)'
      OBVIOUS
    <3>1. r.row # 0 => r.row \in Rows' /\ child'[r.row].kind = "reading"
      BY DEF ReadingFits
    <3>2. r.row # 0 /\ r.at # "checked" =>
            /\ r.seen <= child'[r.row].revision
            /\ r.seen = child'[r.row].revision => r.row \notin gone'
      <4> SUFFICES ASSUME r.row # 0, r.at # "checked"
                   PROVE  /\ r.seen <= child'[r.row].revision
                          /\ r.seen = child'[r.row].revision => r.row \notin gone'
        OBVIOUS
      <4>1. /\ r.row \in Rows /\ child[r.row].kind = "reading" /\ r.seen <= child[r.row].revision
            /\ r.seen = child[r.row].revision => r.row \notin gone
        BY DEF ReadingFits
      <4>2. r.seen \in Nat /\ child[r.row].revision \in Nat /\ child'[r.row].revision \in Nat
        BY <4>1, RowTypes DEF Request
      <4> QED
        BY <4>1, <4>2
    <3>3. r.at = "locked" /\ r.row = 0 => LiveOn("reading", r.key)' = {}
      <4> SUFFICES ASSUME r.at = "locked", r.row = 0 PROVE LiveOn("reading", r.key)' = {}
        OBVIOUS
      <4>1. lock = d /\ lock # None
        BY <1>3, <2>1, <2>2, ClientAssumption DEF IInv, LockIsHeld
      <4>2. \A key : LiveOn("reading", key)' \subseteq LiveOn("reading", key)
        BY <2>1, <4>1
      <4>3. LiveOn("reading", r.key) = {}
        BY DEF ReadingFits
      <4> QED
        BY <4>2, <4>3
    <3> QED
      BY <3>1, <3>2, <3>3 DEF ReadingFits
  <2>4. KpiFits(r) => KpiFits(r)'
    BY RowTypes DEF KpiFits, Request, KpiLive
  <2> QED
    BY <2>1, <2>2, <2>3, <2>4 DEF RequestFits
<1>4. RequestsFit'
  BY <1>3 DEF RequestsFit
<1>5. LockIsHeld'
  BY <1>1, <1>2 DEF IInv, LockIsHeld
<1>6. lock' # None => txn'[lock'] # None /\ txn'[lock'].at = "locked"
  BY <1>1, <1>2 DEF IInv, TypeOK
<1> QED
  BY <1>1, <1>4, <1>5, <1>6

\* A new value of a reading.
LEMMA UpdateInv ==
  ASSUME IInv, NEW c \in Client, txn[c] # None, txn[c].op \in ReadingOp, txn[c].at # "checked",
         txn[c].row # 0, UpdateReading(c)
  PROVE  IInv' /\ Rests
<1> DEFINE i == txn[c].row
<1>1. CASE ~ Matches(c) \/ ~ Answers
  BY <1>1, RefuseInv DEF UpdateReading
<1>2. CASE Matches(c) /\ Answers
  <2>1. /\ Stamp(c) /\ child' = [child EXCEPT ![i].revision = @ + 1]
        /\ txn' = [txn EXCEPT ![c] = None] /\ lock' = (IF lock = c THEN None ELSE lock)
        /\ failed' = {} /\ UNCHANGED <<kpi, gone>>
    BY <1>2 DEF UpdateReading, Finish, IInv
  <2>2. i \in Rows /\ i \notin gone
    BY <1>2 DEF IInv, RequestsFit, RequestFits, ReadingFits, Matches
  <2>3. PICK x \in Child : x = child[i]
    BY <2>2, RowTypes
  <2> DEFINE y == [x EXCEPT !.revision = @ + 1]
  <2>4. /\ y \in Child /\ y.revision = x.revision + 1 /\ y.kind = x.kind /\ y.key = x.key
        /\ y.deletedOp = x.deletedOp
    BY <2>1, <2>3, BoundAssumption DEF Child, Stamp
  <2>5. child' = [child EXCEPT ![i] = y]
    BY <2>1, <2>3
  <2> HIDE DEF y, i
  <2>6. /\ child' \in Seq(Child) /\ Len(child') = Len(child) /\ Rows' = Rows /\ child'[i] = y
        /\ \A k \in Rows : k # i => child'[k] = child[k]
    BY <2>2, <2>4, <2>5 DEF IInv, TypeOK, Rows
  <2>7. \A k \in Rows : /\ child'[k].kind = child[k].kind /\ child'[k].key = child[k].key
                        /\ child'[k].deletedOp = child[k].deletedOp
    BY <2>3, <2>4, <2>6
  <2>8. \A k \in Rows :
          /\ child'[k].kind = child[k].kind /\ child'[k].revision \in Nat
          /\ \/ child'[k].revision > child[k].revision
             \/ /\ child'[k].revision = child[k].revision
                /\ k \in gone' => k \in gone \/ child[k].kind = "target"
    <3>1. \A k \in Rows : child[k].revision \in Nat
      BY RowTypes
    <3> QED
      BY <2>1, <2>3, <2>4, <2>6, <3>1
  <2>9. \A key : LiveOn("reading", key)' \subseteq LiveOn("reading", key)
    BY <2>6, <2>7 DEF LiveOn, Live
  <2>10. /\ RequestsFit' /\ LockIsHeld' /\ txn' \in [Client -> Request \cup {None}]
         /\ lock' \in Client \cup {None}
         /\ lock' # None => txn'[lock'] # None /\ txn'[lock'].at = "locked"
    BY <2>1, <2>6, <2>8, <2>9, OthersFit
  <2>11. TypeOK'
    BY <2>1, <2>6, <2>10 DEF IInv, TypeOK
  <2>12. RowsFollow' /\ KeysDiffer'
    BY <2>1, <2>6, <2>7, RowTypes DEF IInv, RowsFollow, KeysDiffer
  <2> QED
    BY <2>1, <2>2, <2>6, <2>10, <2>11, <2>12, RowTypes DEF IInv, Rests
<1> QED
  BY <1>1, <1>2

\* A new row of a live KPI, on a date or period that has none.
LEMMA AppendInv ==
  ASSUME IInv, NEW c \in Client, NEW kind \in Kind, NEW key \in Key, LiveOn(kind, key) = {},
         KpiLive, lock \in {None, c}, Len(child) < MaxRows,
         child' = Append(child, [kind |-> kind, key |-> key, revision |-> 1, deletedOp |-> None]),
         Finish(c, {}), UNCHANGED <<kpi, gone>>
  PROVE  IInv' /\ Rests
<1> DEFINE x == [kind |-> kind, key |-> key, revision |-> 1, deletedOp |-> None]
           n == Len(child) + 1
<1>1. /\ txn' = [txn EXCEPT ![c] = None] /\ lock' = (IF lock = c THEN None ELSE lock)
      /\ failed' = {}
  BY DEF Finish, IInv
<1>2. x \in Child /\ x.kind = kind /\ x.key = key /\ x.deletedOp = None
  BY BoundAssumption DEF Child
<1> HIDE DEF x
<1>3. child' = Append(child, x)
  BY DEF x
<1>4. /\ child' \in Seq(Child) /\ Len(child') = n /\ child'[n] = x
      /\ \A i \in Rows : child'[i] = child[i]
      /\ Rows' = Rows \cup {n} /\ n \notin Rows
  <2>1. child \in Seq(Child) /\ Len(child) \in Nat /\ Rows = 1 .. Len(child)
    BY RowTypes DEF IInv, TypeOK
  <2>2. child' \in Seq(Child) /\ Len(child') = n
    BY <1>2, <1>3, <2>1
  <2>3. Rows' = 1 .. n
    BY <2>2 DEF Rows
  <2> QED
    BY <1>2, <1>3, <2>1, <2>2, <2>3
<1>5. Len(child') <= MaxRows
  BY <1>4, RowTypes, BoundAssumption
<1> HIDE DEF n
<1>6. \A i \in Rows : /\ child'[i].kind = child[i].kind /\ child'[i].revision \in Nat
                      /\ child'[i].revision = child[i].revision
  BY <1>4, RowTypes
<1>7. /\ RequestsFit' /\ LockIsHeld' /\ txn' \in [Client -> Request \cup {None}]
      /\ lock' \in Client \cup {None}
      /\ lock' # None => txn'[lock'] # None /\ txn'[lock'].at = "locked"
  BY <1>1, <1>4, <1>6, OthersFit
<1>8. TypeOK'
  BY <1>1, <1>4, <1>5, <1>7 DEF IInv, TypeOK
<1>9. RowsFollow'
  BY <1>2, <1>4, RowTypes DEF IInv, RowsFollow, KpiLive
<1>10. KeysDiffer'
  <2>1. \A i \in Rows \ gone : child[i].kind # kind \/ child[i].key # key
    BY LiveRows DEF LiveOn
  <2>2. Rows' \ gone' = (Rows \ gone) \cup {n}
    BY <1>4, RowTypes
  <2>3. \A i \in Rows \ gone : child'[i] = child[i] /\ i # n
    BY <1>4
  <2>4. child'[n].kind = kind /\ child'[n].key = key
    BY <1>2, <1>4
  <2> SUFFICES ASSUME NEW i \in (Rows \ gone) \cup {n}, NEW j \in (Rows \ gone) \cup {n},
                      child'[i].kind = child'[j].kind, child'[i].key = child'[j].key
               PROVE  i = j
    BY <2>2 DEF KeysDiffer
  <2>5. CASE i # n /\ j # n
    BY <2>3, <2>5 DEF IInv, KeysDiffer
  <2>6. CASE i = n \/ j = n
    BY <2>1, <2>3, <2>4, <2>6
  <2> QED
    BY <2>5, <2>6
<1> QED
  BY <1>1, <1>4, <1>7, <1>8, <1>9, <1>10, RowTypes DEF IInv, Rests

LEMMA InsertInv ==
  ASSUME IInv, NEW c \in Client, At(c, "addReading", "locked") \/ At(c, "overwriteReading", "locked"),
         txn[c].row = 0, InsertReading(c)
  PROVE  IInv' /\ Rests
<1>1. txn[c] \in Request /\ RequestFits(txn[c]) /\ lock = c
  BY DEF At, IInv, TypeOK, RequestsFit, LockIsHeld
<1>2. LiveOn("reading", txn[c].key) = {}
  BY <1>1 DEF RequestFits, ReadingFits, At, ReadingOp
<1>3. CASE ~ Answers
  BY <1>2, <1>3, RefuseInv DEF InsertReading
<1>4. CASE Answers
  <2>1. /\ Len(child) < MaxRows /\ Finish(c, {}) /\ UNCHANGED <<kpi, gone>> /\ KpiLive
        /\ child' = Append(child, [kind |-> "reading", key |-> txn[c].key, revision |-> 1,
                                   deletedOp |-> None])
    BY <1>2, <1>4 DEF InsertReading, Answers
  <2>2. txn[c].key \in Key
    BY <1>1 DEF RequestFits, At
  <2> QED
    BY <1>1, <1>2, <2>1, <2>2, AppendInv DEF Kind
<1> QED
  BY <1>3, <1>4

LEMMA AddInv ==
  ASSUME IInv, NEW c \in Client, AddReading(c)
  PROVE  IInv' /\ Rests
<1>1. CASE txn[c].row # 0
  BY <1>1, RefuseInv DEF AddReading
<1>2. CASE txn[c].row = 0
  BY <1>2, InsertInv DEF AddReading
<1> QED
  BY <1>1, <1>2

LEMMA OverwriteInv ==
  ASSUME IInv, NEW c \in Client, OverwriteReading(c)
  PROVE  IInv' /\ Rests
<1>1. CASE txn[c].row # 0
  BY <1>1, UpdateInv DEF OverwriteReading, At, ReadingOp
<1>2. CASE txn[c].row = 0
  BY <1>2, InsertInv, RefuseInv DEF OverwriteReading
<1> QED
  BY <1>1, <1>2

LEMMA PatchReadingInv ==
  ASSUME IInv, NEW c \in Client, PatchReading(c)
  PROVE  IInv' /\ Rests
<1>1. txn[c] # None /\ txn[c].op = "patchReading" /\ txn[c].at = "read" /\ UpdateReading(c)
  BY DEF PatchReading, At
<1>2. txn[c].row # 0
  BY <1>1 DEF IInv, RequestsFit, RequestFits, ReadingFits, ReadingOp
<1> QED
  BY <1>1, <1>2, UpdateInv DEF ReadingOp

\* Rows are deleted on their own: a reading under a new revision, or a target.
LEMMA DeletedInv ==
  ASSUME IInv, NEW c \in Client, NEW i \in Rows \ gone, NEW y \in Child,
         child' = [child EXCEPT ![i] = y],
         y.kind = child[i].kind, y.key = child[i].key, y.deletedOp = 0,
         y.revision > child[i].revision
           \/ (y.revision = child[i].revision /\ child[i].kind = "target"),
         gone' = gone \cup {i}, Finish(c, {}), UNCHANGED kpi
  PROVE  IInv' /\ Rests
<1>1. /\ txn' = [txn EXCEPT ![c] = None] /\ lock' = (IF lock = c THEN None ELSE lock)
      /\ failed' = {}
  BY DEF Finish, IInv
<1>5. /\ child' \in Seq(Child) /\ Len(child') = Len(child) /\ Rows' = Rows /\ child'[i] = y
      /\ \A k \in Rows : k # i => child'[k] = child[k]
  BY DEF IInv, TypeOK, Rows
<1>6. \A k \in Rows : child'[k].kind = child[k].kind /\ child'[k].key = child[k].key
  BY <1>5
<1>7. \A k \in Rows :
        /\ child'[k].kind = child[k].kind /\ child'[k].revision \in Nat
        /\ \/ child'[k].revision > child[k].revision
           \/ /\ child'[k].revision = child[k].revision
              /\ k \in gone' => k \in gone \/ child[k].kind = "target"
  <2>1. (\A k \in Rows : child[k].revision \in Nat) /\ y.revision \in Nat
    BY RowTypes DEF Child
  <2> QED
    BY <1>5, <1>6, <2>1
<1>8. \A key : LiveOn("reading", key)' \subseteq LiveOn("reading", key)
  <2>1. Live' \subseteq Live
    BY <1>5, NoneAssumption DEF Live
  <2> QED
    BY <1>5, <1>6, <2>1 DEF LiveOn, Live
<1>9. /\ RequestsFit' /\ LockIsHeld' /\ txn' \in [Client -> Request \cup {None}]
      /\ lock' \in Client \cup {None}
      /\ lock' # None => txn'[lock'] # None /\ txn'[lock'].at = "locked"
  BY <1>1, <1>5, <1>7, <1>8, OthersFit
<1>10. TypeOK'
  BY <1>1, <1>5, <1>9 DEF IInv, TypeOK
<1>11. RowsFollow'
  BY <1>5, RowTypes DEF IInv, RowsFollow
<1>12. KeysDiffer'
  BY <1>5, <1>6 DEF IInv, KeysDiffer
<1>13. Rests
  BY <1>5, RowTypes DEF Rests
<1> QED
  BY <1>1, <1>9, <1>10, <1>11, <1>12, <1>13 DEF IInv

LEMMA RemoveReadingInv ==
  ASSUME IInv, NEW c \in Client, RemoveReading(c)
  PROVE  IInv' /\ Rests
<1> DEFINE i == txn[c].row
<1>1. CASE ~ Matches(c)
  BY <1>1, RefuseInv DEF RemoveReading
<1>2. CASE Matches(c)
  <2>1. /\ Stamp(c) /\ Finish(c, {}) /\ UNCHANGED kpi /\ gone' = gone \cup {i}
        /\ child' = [child EXCEPT ![i].revision = @ + 1, ![i].deletedOp = 0]
    BY <1>2 DEF RemoveReading
  <2>2. i \in Rows \ gone
    BY <1>2 DEF RemoveReading, At, IInv, RequestsFit, RequestFits, ReadingFits, Matches, ReadingOp
  <2>3. child[i].revision + 1 \in 1 .. MaxRevision + 1 /\ child[i].revision \in Nat
    BY <2>1, <2>2, RowTypes DEF Stamp
  <2> HIDE DEF i
  <2>4. PICK x \in Child : x = child[i]
    BY <2>2, RowTypes
  <2> DEFINE next == x.revision + 1
             y == [x EXCEPT !.revision = next, !.deletedOp = 0]
  <2>5. child' = [child EXCEPT ![i] = y]
    BY <2>1, <2>4
  <2>7. next \in 1 .. MaxRevision + 1 /\ next > x.revision
    BY <2>3, <2>4
  <2> HIDE DEF next
  <2>6. /\ y \in Child /\ y.kind = x.kind /\ y.key = x.key /\ y.deletedOp = 0
        /\ y.revision > x.revision
    BY <2>4, <2>7 DEF Child
  <2> HIDE DEF y
  <2> QED
    BY <2>1, <2>2, <2>4, <2>5, <2>6, DeletedInv
<1> QED
  BY <1>1, <1>2

LEMMA RemoveTargetInv ==
  ASSUME IInv, NEW c \in Client, RemoveTarget(c)
  PROVE  IInv' /\ Rests
<1> DEFINE i == txn[c].row
<1>1. CASE i \notin Live
  BY <1>1, RefuseInv DEF RemoveTarget
<1>2. CASE i \in Live
  <2>1. /\ Finish(c, {}) /\ UNCHANGED kpi /\ gone' = gone \cup {i}
        /\ child' = [child EXCEPT ![i].deletedOp = 0]
    BY <1>2 DEF RemoveTarget
  <2>2. i \in Rows \ gone
    BY <1>2, NoneAssumption DEF IInv, RowsFollow, Live
  <2>3. child[i].kind = "target"
    BY DEF RemoveTarget, At, IInv, RequestsFit, RequestFits
  <2> HIDE DEF i
  <2>4. PICK x \in Child : x = child[i]
    BY <2>2, RowTypes
  <2> DEFINE y == [x EXCEPT !.deletedOp = 0]
  <2>5. child' = [child EXCEPT ![i] = y]
    BY <2>1, <2>4
  <2>6. /\ y \in Child /\ y.kind = x.kind /\ y.key = x.key /\ y.deletedOp = 0
        /\ y.revision = x.revision
    BY <2>4 DEF Child
  <2> HIDE DEF y
  <2> QED
    BY <2>1, <2>2, <2>3, <2>4, <2>5, <2>6, DeletedInv
<1> QED
  BY <1>1, <1>2

\* The upsert of a period that has a target leaves the rows as they are.
LEMMA PutTargetsInv ==
  ASSUME IInv, NEW c \in Client, PutTargets(c)
  PROVE  IInv' /\ Rests
<1>1. CASE ~ Answers
  BY <1>1, RefuseInv DEF PutTargets
<1>2. CASE Answers
  <2>1. lock = None /\ Finish(c, {}) /\ UNCHANGED <<kpi, gone>> /\ KpiLive
    BY <1>2 DEF PutTargets, Answers
  <2>2. CASE LiveOn("target", txn[c].key) # {}
    <3>1. /\ UNCHANGED <<kpi, child, gone, failed>> /\ txn' = [txn EXCEPT ![c] = None]
          /\ lock' = IF lock = c THEN None ELSE lock
      BY <1>2, <2>1, <2>2 DEF PutTargets, Finish
    <3> QED
      BY <3>1, ReadingStepInv
  <2>3. CASE LiveOn("target", txn[c].key) = {}
    <3>1. txn[c].key \in Key
      BY DEF PutTargets, At, IInv, RequestsFit, RequestFits
    <3>2. /\ Len(child) < MaxRows
          /\ child' = Append(child, [kind |-> "target", key |-> txn[c].key,
                                     revision |-> 1, deletedOp |-> None])
      BY <1>2, <2>3 DEF PutTargets
    <3> QED
      BY <2>1, <2>3, <3>1, <3>2, AppendInv DEF Kind
  <2> QED
    BY <2>2, <2>3
<1> QED
  BY <1>1, <1>2

-----------------------------------------------------------------------------
(* The KPI's own writes                                                    *)

\* The KPI gets a new revision and takes the rows that are not gone along.
LEMMA KpiStepInv ==
  ASSUME IInv, NEW c \in Client, NEW op \in (1 .. MaxRevision + 1) \cup {None},
         kpi.revision <= MaxRevision, kpi' = [revision |-> kpi.revision + 1, deletedOp |-> op],
         child' = [i \in Rows |-> IF i \in gone THEN child[i] ELSE [child[i] EXCEPT !.deletedOp = op]],
         txn' = [txn EXCEPT ![c] = None], lock = None, lock' = None,
         UNCHANGED <<failed, gone>>
  PROVE  IInv' /\ Rests
<1>1. /\ kpi'.revision = kpi.revision + 1 /\ kpi'.deletedOp = op
      /\ kpi' \in [revision: 1 .. MaxRevision + 1, deletedOp: (1 .. MaxRevision + 1) \cup {None}]
      /\ kpi.revision \in Nat
  BY RowTypes
<1>2. \A i \in Rows :
        /\ child'[i] \in Child /\ child'[i].kind = child[i].kind /\ child'[i].key = child[i].key
        /\ child'[i].revision = child[i].revision /\ child'[i].revision \in Nat
        /\ i \in gone => child'[i] = child[i]
        /\ i \notin gone => child'[i].deletedOp = op
  <2> SUFFICES ASSUME NEW i \in Rows
               PROVE  /\ child'[i] \in Child
                      /\ child'[i].kind = child[i].kind /\ child'[i].key = child[i].key
                      /\ child'[i].revision = child[i].revision /\ child'[i].revision \in Nat
                      /\ i \in gone => child'[i] = child[i]
                      /\ i \notin gone => child'[i].deletedOp = op
    OBVIOUS
  <2>1. PICK x \in Child : x = child[i]
    BY RowTypes
  <2> DEFINE y == [x EXCEPT !.deletedOp = op]
  <2>2. child'[i] = IF i \in gone THEN x ELSE y
    BY <2>1
  <2>3. /\ y \in Child /\ y.kind = x.kind /\ y.key = x.key /\ y.revision = x.revision
        /\ y.deletedOp = op
    BY <2>1 DEF Child
  <2>4. x.revision \in Nat
    BY DEF Child
  <2> HIDE DEF y
  <2> QED
    BY <2>1, <2>2, <2>3, <2>4
<1>3. /\ child' \in Seq(Child) /\ Rows' = Rows /\ Len(child') = Len(child)
  <2>1. Len(child) \in Nat /\ Rows = 1 .. Len(child)
    BY RowTypes
  <2>2. child' \in [1 .. Len(child) -> Child] /\ DOMAIN child' = 1 .. Len(child)
    BY <1>2, <2>1
  <2> QED
    BY <2>1, <2>2 DEF Rows
<1>4. \A i \in Rows :
        /\ child'[i].kind = child[i].kind /\ child'[i].revision \in Nat
        /\ \/ child'[i].revision > child[i].revision
           \/ /\ child'[i].revision = child[i].revision
              /\ i \in gone' => i \in gone \/ child[i].kind = "target"
  BY <1>2
<1>5. /\ lock' = (IF lock = c THEN None ELSE lock) /\ lock \in {None, c}
      /\ kpi'.revision \in Nat /\ kpi'.revision > kpi.revision
  BY <1>1, ClientAssumption
<1>6. /\ RequestsFit' /\ LockIsHeld' /\ txn' \in [Client -> Request \cup {None}]
      /\ lock' \in Client \cup {None}
      /\ lock' # None => txn'[lock'] # None /\ txn'[lock'].at = "locked"
  BY <1>3, <1>4, <1>5, OthersFit
<1>7. TypeOK'
  BY <1>1, <1>3, <1>6 DEF IInv, TypeOK
<1>8. RowsFollow'
  BY <1>1, <1>2, <1>3, RowTypes DEF IInv, RowsFollow
<1>9. KeysDiffer'
  <2>1. \A i \in Rows : child'[i].kind = child[i].kind /\ child'[i].key = child[i].key
    BY <1>2
  <2>2. Rows' = Rows /\ gone' = gone
    BY <1>3
  <2> SUFFICES ASSUME NEW i \in Rows \ gone, NEW j \in Rows \ gone,
                      child'[i].kind = child'[j].kind, child'[i].key = child'[j].key
               PROVE  i = j
    BY <2>2 DEF KeysDiffer
  <2>3. child[i].kind = child[j].kind /\ child[i].key = child[j].key
    BY <2>1
  <2> QED
    BY <2>3 DEF IInv, KeysDiffer
<1>10. Rests
  BY <1>2, RowTypes DEF Rests
<1> QED
  BY <1>6, <1>7, <1>8, <1>9, <1>10 DEF IInv

LEMMA PatchKpiInv ==
  ASSUME IInv, NEW c \in Client, PatchKpi(c)
  PROVE  IInv' /\ Rests
<1>1. CASE Refuse(c, {})
  BY <1>1, RefuseInv
<1>2. CASE /\ Changes(c) /\ kpi' = [kpi EXCEPT !.revision = @ + 1]
           /\ Finish(c, {}) /\ UNCHANGED <<child, gone>>
  <2>1. /\ lock = None /\ kpi.revision <= MaxRevision /\ txn' = [txn EXCEPT ![c] = None]
        /\ lock' = (IF lock = c THEN None ELSE lock) /\ failed' = {}
    BY <1>2 DEF Changes, Finish, IInv
  <2>2. PICK k \in [revision: 1 .. MaxRevision + 1,
                    deletedOp: (1 .. MaxRevision + 1) \cup {None}] : k = kpi
    BY DEF IInv, TypeOK
  <2> DEFINE l == [k EXCEPT !.revision = @ + 1]
  <2>3. l = kpi' /\ l.revision = k.revision + 1 /\ l.deletedOp = k.deletedOp /\ k.revision \in Nat
        /\ l \in [revision: 1 .. MaxRevision + 1, deletedOp: (1 .. MaxRevision + 1) \cup {None}]
    BY <1>2, <2>1, <2>2, BoundAssumption
  <2> HIDE DEF l
  <2>4. Rows' = Rows /\ \A i \in Rows : child'[i] = child[i] /\ child[i].revision \in Nat
    BY <1>2, RowTypes DEF Rows
  <2>5. lock \in {None, c} /\ kpi'.revision \in Nat /\ kpi'.revision > kpi.revision
    BY <2>1, <2>2, <2>3
  <2>6. \A i \in Rows :
          /\ child'[i].kind = child[i].kind /\ child'[i].revision \in Nat
          /\ \/ child'[i].revision > child[i].revision
             \/ /\ child'[i].revision = child[i].revision
                /\ i \in gone' => i \in gone \/ child[i].kind = "target"
    BY <1>2, <2>4
  <2>7. /\ RequestsFit' /\ LockIsHeld' /\ txn' \in [Client -> Request \cup {None}]
        /\ lock' \in Client \cup {None}
        /\ lock' # None => txn'[lock'] # None /\ txn'[lock'].at = "locked"
    BY <2>1, <2>4, <2>5, <2>6, OthersFit
  <2>8. TypeOK'
    BY <1>2, <2>1, <2>3, <2>4, <2>7 DEF IInv, TypeOK
  <2>9. RowsFollow' /\ KeysDiffer' /\ Rests
    BY <1>2, <2>2, <2>3, <2>4, RowTypes DEF IInv, RowsFollow, KeysDiffer, Rests
  <2> QED
    BY <2>1, <2>7, <2>8, <2>9 DEF IInv
<1> QED
  BY <1>1, <1>2 DEF PatchKpi

\* A KPI at the revision that was read is live, and so are all its rows that are not gone.
LEMMA RemoveKpiInv ==
  ASSUME IInv, NEW c \in Client, RemoveKpi(c)
  PROVE  IInv' /\ Rests
<1> DEFINE op == kpi.revision + 1
<1>1. CASE Refuse(c, {})
  BY <1>1, RefuseInv
<1>2. CASE /\ Changes(c) /\ kpi' = [revision |-> op, deletedOp |-> op] /\ child' = Hidden(op)
           /\ Finish(c, {}) /\ UNCHANGED gone
  <2>1. /\ lock = None /\ kpi.revision <= MaxRevision /\ txn' = [txn EXCEPT ![c] = None]
        /\ lock' = (IF lock = c THEN None ELSE lock) /\ lock' = None /\ UNCHANGED failed
    BY <1>2 DEF Changes, Finish
  <2>2. KpiLive
    BY <1>2 DEF Changes, RemoveKpi, At, IInv, RequestsFit, RequestFits, KpiFits
  <2>3. \A i \in Rows : i \in Live <=> i \notin gone
    BY <2>2, LiveRows
  <2>4. op \in 1 .. MaxRevision + 1
    BY <2>1, RowTypes
  <2>5. child' = [i \in Rows |-> IF i \in gone THEN child[i]
                                 ELSE [child[i] EXCEPT !.deletedOp = op]]
    BY <1>2, <2>3 DEF Hidden
  <2> QED
    BY <1>2, <2>1, <2>4, <2>5, KpiStepInv
<1> QED
  BY <1>1, <1>2 DEF RemoveKpi

\* No index refuses a restore: the rows of the KPI's operation are all that are not gone.
LEMMA RestoreKpiInv ==
  ASSUME IInv, NEW c \in Client, RestoreKpi(c)
  PROVE  IInv' /\ Rests
<1> DEFINE rows == Revealed(kpi.deletedOp)
<1>1. /\ txn[c] = None /\ ~ KpiLive /\ lock = None /\ UNCHANGED <<txn, lock, gone>>
      /\ kpi.deletedOp \in 1 .. MaxRevision + 1
  BY RowTypes DEF RestoreKpi, KpiLive
<1>2. \A i \in Rows : child[i].deletedOp = kpi.deletedOp <=> i \notin gone
  BY <1>1 DEF IInv, RowsFollow
<1>3. rows = [i \in Rows |-> IF i \in gone THEN child[i] ELSE [child[i] EXCEPT !.deletedOp = None]]
  BY <1>2 DEF Revealed
<1>4. \A i \in Rows : /\ rows[i].kind = child[i].kind /\ rows[i].key = child[i].key
                      /\ i \in gone => rows[i].deletedOp = 0
  <2> SUFFICES ASSUME NEW i \in Rows
               PROVE  /\ rows[i].kind = child[i].kind /\ rows[i].key = child[i].key
                      /\ i \in gone => rows[i].deletedOp = 0
    OBVIOUS
  <2>1. PICK x \in Child : x = child[i]
    BY RowTypes
  <2>2. rows[i] = IF i \in gone THEN x ELSE [x EXCEPT !.deletedOp = None]
    BY <1>3, <2>1
  <2>3. i \in gone => x.deletedOp = 0
    BY <2>1 DEF IInv, RowsFollow
  <2> HIDE DEF rows
  <2> QED
    BY <2>1, <2>2, <2>3 DEF Child
<1>5. DOMAIN rows = Rows
  BY <1>3
<1> HIDE DEF rows
<1>6. Unique(rows)
  BY <1>4, <1>5, NoneAssumption DEF Unique, IInv, KeysDiffer
<1>7. /\ kpi.revision <= MaxRevision /\ child' = rows /\ UNCHANGED failed
      /\ kpi' = [revision |-> kpi.revision + 1, deletedOp |-> None]
  BY <1>6 DEF rows, RestoreKpi
<1>8. txn' = [txn EXCEPT ![c] = None]
  BY <1>1 DEF IInv, TypeOK
<1> QED
  BY <1>1, <1>3, <1>7, <1>8, KpiStepInv

-----------------------------------------------------------------------------
(* The theorems                                                            *)

LEMMA NextInv ==
  ASSUME IInv, [Next]_vars
  PROVE  IInv' /\ Rests
<1>1. CASE Next
  <2> SUFFICES ASSUME NEW c \in Client,
                      Ask(c) \/ ReadingStep(c) \/ PutTargets(c) \/ RemoveTarget(c) \/ KpiStep(c)
               PROVE  IInv' /\ Rests
    BY <1>1 DEF Next
  <2>1. CASE ReadingStep(c)
    BY <2>1, LockInv, AddInv, OverwriteInv, RequireInv, PatchReadingInv, RemoveReadingInv
       DEF ReadingStep
  <2>2. CASE KpiStep(c)
    BY <2>2, PatchKpiInv, RemoveKpiInv, RestoreKpiInv DEF KpiStep
  <2> QED
    BY <2>1, <2>2, BeginInv, PutTargetsInv, RemoveTargetInv
<1>2. CASE UNCHANGED vars
  BY <1>2 DEF vars, IInv, TypeOK, RowsFollow, KeysDiffer, RequestsFit, RequestFits, ReadingFits,
              KpiFits, LockIsHeld, Rests, Rows, LiveOn, Live, KpiLive
<1> QED
  BY <1>1, <1>2

\* What the rest follows from: the picture of the rows holds in every state.
THEOREM InvariantHolds == Spec => []IInv
<1>1. IInv /\ [Next]_vars => IInv'
  BY NextInv
<1> QED
  BY InitInv, <1>1, PTL DEF Spec

\* The KPI, its readings and targets and the open requests are well typed, for any number of them.
THEOREM KpisTyped == Spec => []TypeOK
<1>1. IInv => TypeOK
  BY DEF IInv
<1> QED
  BY InvariantHolds, <1>1, PTL

\* addReading and overwriteReading never run into the unique index on a KPI's dates, because they
\* look the date up under the KPI's lock (KPIS-B09).
THEOREM DatesAreLookedUpInTime == Spec => []IndexNeverAnswers
<1>1. IInv => IndexNeverAnswers
  BY DEF IInv, IndexNeverAnswers
<1> QED
  BY InvariantHolds, <1>1, PTL

\* Trashing and restoring a KPI loses no reading or target and revives none (KPIS-I03).
THEOREM NothingIsLost == Spec => []LiveKpiShowsAll
<1>1. IInv => LiveKpiShowsAll
  BY LiveRows DEF LiveKpiShowsAll
<1> QED
  BY InvariantHolds, <1>1, PTL

\* No unique index refuses restoreKpi the rows that hideChildren hid.
THEOREM RestoreStaysPossible == Spec => []RestoreIsPossible
<1>1. IInv => RestoreIsPossible
  BY DEF IInv, RestoreIsPossible
<1> QED
  BY InvariantHolds, <1>1, PTL

\* A reading or target deleted on its own never changes again, whatever was read before.
THEOREM TheDeletedRest == Spec => DeletedRowsRest
<1> DEFINE A == \A i \in gone : child'[i] = child[i]
<1>1. IInv /\ [Next]_vars => [A]_vars
  BY NextInv DEF Rests
<1> QED
  BY InvariantHolds, <1>1, PTL DEF Spec, DeletedRowsRest

-----------------------------------------------------------------------------
(***************************************************************************)
(* The scorecard's arithmetic, for all amounts, targets, days and          *)
(* periods.  What it says about time rests on one fact: the index of the   *)
(* period that a month lies in never goes down.  What it says about the    *)
(* effective target rests on another: of the targets ahead one has the     *)
(* least index, and no other target has its period.                        *)
(***************************************************************************)

\* Every set of natural numbers that is not empty has a least element.
LEMMA LeastNatural ==
  ASSUME NEW N \in SUBSET Nat, N # {}
  PROVE  \E n \in N : \A m \in N : n <= m
<1>1. PICK n \in N : \A m \in N : ~ (<<m, n>> \in OpToRel(<, Nat))
  BY NatLessThanWellFounded, WFMin
<1>2. \A m \in N : ~ (m < n)
  BY <1>1 DEF OpToRel
<1> QED
  BY <1>2

LEMMA InitTyped == ScoreInit => ScoreTypeOK
<1> SUFFICES ASSUME ScoreInit PROVE ScoreTypeOK
  OBVIOUS
<1>1. facts \in Facts
  BY DEF ScoreInit, Facts, Frequency, Direction
<1> QED
  BY <1>1 DEF ScoreInit, ScoreTypeOK

LEMMA NextTyped ==
  ASSUME ScoreTypeOK, [ScoreNext]_scoreVars
  PROVE  ScoreTypeOK'
<1>1. facts \in Facts /\ today \in Days
  BY DEF ScoreTypeOK
<1>2. CASE UNCHANGED scoreVars
  BY <1>1, <1>2 DEF scoreVars, ScoreTypeOK
<1>3. CASE PassDay
  BY <1>1, <1>3 DEF PassDay, ScoreTypeOK
<1>4. ASSUME NEW r \in Reading, PutReading(r) PROVE ScoreTypeOK'
  <2> DEFINE new == {s \in facts.readings : s.day # r.day} \cup {r}
  <2>1. new \in SUBSET Reading
    BY <1>1 DEF Facts
  <2>2. facts' = [facts EXCEPT !.readings = new] /\ today' = today
    BY <1>4 DEF PutReading
  <2> HIDE DEF new
  <2> QED
    BY <1>1, <2>1, <2>2 DEF ScoreTypeOK, Facts
<1>8. ASSUME NEW r \in facts.readings, DropReading(r) PROVE ScoreTypeOK'
  BY <1>1, <1>8 DEF DropReading, ScoreTypeOK, Facts
<1>5. ASSUME NEW t \in Target, PutTarget(t) PROVE ScoreTypeOK'
  <2> DEFINE new == {u \in facts.targets : u.year # t.year \/ u.period # t.period} \cup {t}
  <2>1. new \in SUBSET Target
    BY <1>1 DEF Facts
  <2>2. facts' = [facts EXCEPT !.targets = new] /\ today' = today
    BY <1>5 DEF PutTarget
  <2> HIDE DEF new
  <2> QED
    BY <1>1, <2>1, <2>2 DEF ScoreTypeOK, Facts
<1>6. ASSUME NEW t \in facts.targets, DropTarget(t) PROVE ScoreTypeOK'
  BY <1>1, <1>6 DEF DropTarget, ScoreTypeOK, Facts
<1>7. ASSUME NEW f \in Frequency, NEW d \in Direction, PatchMeasure(f, d) PROVE ScoreTypeOK'
  BY <1>1, <1>7 DEF PatchMeasure, ScoreTypeOK, Facts
<1> QED
  BY <1>2, <1>3, <1>4, <1>5, <1>6, <1>7, <1>8 DEF ScoreNext

LEMMA TypedAlways == ScoreSpec => []ScoreTypeOK
<1> QED
  BY InitTyped, NextTyped, PTL DEF ScoreSpec

\* The index of the running period, one formula for each frequency.
LEMMA IndexOfMonth ==
  ASSUME NEW m \in Nat
  PROVE  /\ PeriodIndex(PeriodOf(m, "monthly"), "monthly") = m
         /\ PeriodIndex(PeriodOf(m, "quarterly"), "quarterly") = m \div 3
         /\ PeriodIndex(PeriodOf(m, "annual"), "annual") = m \div 12
<1>1. PeriodsPerYear("monthly") = 12 /\ PeriodsPerYear("quarterly") = 4 /\ PeriodsPerYear("annual") = 1
  BY DEF PeriodsPerYear
<1>2. MonthsPerPeriod("monthly") = 1 /\ MonthsPerPeriod("quarterly") = 3 /\ MonthsPerPeriod("annual") = 12
  BY <1>1 DEF MonthsPerPeriod
<1>3. PICK y \in Nat : y = m \div 12
  OBVIOUS
<1>4. PICK r \in 0 .. 11 : r = m % 12
  OBVIOUS
<1>5. m = 12 * y + r
  BY <1>3, <1>4
<1>6. r \div 1 = r /\ r \div 12 = 0
  BY <1>4
<1>7. m \div 3 = 4 * y + (r \div 3)
  BY <1>5
<1> QED
  BY <1>1, <1>2, <1>3, <1>4, <1>5, <1>6, <1>7 DEF PeriodIndex, PeriodOf

LEMMA IndexNeverFalls ==
  ASSUME NEW m \in Nat, NEW f \in Frequency
  PROVE  /\ PeriodIndex(PeriodOf(m, f), f) \in Int
         /\ PeriodIndex(PeriodOf(m + 1, f), f) \in Int
         /\ PeriodIndex(PeriodOf(m + 1, f), f) >= PeriodIndex(PeriodOf(m, f), f)
<1>1. m + 1 \in Nat
  OBVIOUS
<1>2. (m + 1) \div 3 >= m \div 3 /\ (m + 1) \div 12 >= m \div 12
      /\ m \div 3 \in Int /\ (m + 1) \div 3 \in Int /\ m \div 12 \in Int /\ (m + 1) \div 12 \in Int
  OBVIOUS
<1>3. CASE f = "monthly"
  BY <1>1, <1>3, IndexOfMonth
<1>4. CASE f = "quarterly"
  BY <1>1, <1>2, <1>4, IndexOfMonth
<1>5. CASE f = "annual"
  BY <1>1, <1>2, <1>5, IndexOfMonth
<1> QED
  BY <1>3, <1>4, <1>5 DEF Frequency

\* A reading too old for its period stays so, whatever the target; and without a new target a
\* status changes to stale only.
LEMMA StatusAges ==
  ASSUME NEW current, NEW day \in Days \cup {Null}, NEW target, NEW later, NEW d,
         NEW f \in Frequency, NEW now \in Days, now + 1 \in Days
  PROVE  /\ ComputeKpiStatus(current, day, target, d, f, now) = "stale"
              => ComputeKpiStatus(current, day, later, d, f, now + 1) = "stale"
         /\ ComputeKpiStatus(current, day, target, d, f, now + 1)
              \in {ComputeKpiStatus(current, day, target, d, f, now), "stale"}
<1>1. CASE current = Null \/ day = Null
  BY <1>1 DEF ComputeKpiStatus
<1>2. CASE ~ (current = Null \/ day = Null)
  <2>1. day \in Days
    BY <1>2
  <2>2. PeriodIndex(PeriodOf(MonthOf[day], f), f) \in Int
        /\ PeriodIndex(PeriodOf(MonthOf[now], f), f) \in Int
        /\ PeriodIndex(PeriodOf(MonthOf[now + 1], f), f) \in Int
        /\ PeriodIndex(PeriodOf(MonthOf[now + 1], f), f) >= PeriodIndex(PeriodOf(MonthOf[now], f), f)
    <3>1. MonthOf[day] \in Nat /\ MonthOf[now] \in Nat
          /\ MonthOf[now + 1] \in {MonthOf[now], MonthOf[now] + 1}
      BY <2>1, CalendarAssumption
    <3> QED
      BY <3>1, IndexNeverFalls
  <2>3. PeriodsBehind(day, now, f) > 1 => PeriodsBehind(day, now + 1, f) > 1
    BY <2>2 DEF PeriodsBehind
  <2>4. Banded(current, target, d) # "stale"
    BY DEF Banded
  <2>5. ComputeKpiStatus(current, day, target, d, f, now) = "stale"
          <=> PeriodsBehind(day, now, f) > 1
    BY <1>2, <2>4 DEF ComputeKpiStatus
  <2>6. PeriodsBehind(day, now + 1, f) > 1 =>
          /\ ComputeKpiStatus(current, day, target, d, f, now + 1) = "stale"
          /\ ComputeKpiStatus(current, day, later, d, f, now + 1) = "stale"
    BY <1>2 DEF ComputeKpiStatus
  <2>7. ~ (PeriodsBehind(day, now + 1, f) > 1) =>
          ComputeKpiStatus(current, day, target, d, f, now + 1)
            = ComputeKpiStatus(current, day, target, d, f, now)
    BY <1>2, <2>3 DEF ComputeKpiStatus
  <2> QED
    BY <2>3, <2>5, <2>6, <2>7
<1> QED
  BY <1>1, <1>2

\* A reading of the day itself is neither missing nor late.
LEMMA FreshToday ==
  ASSUME NEW current, current # Null, NEW day \in Days, NEW target, NEW d, NEW f \in Frequency
  PROVE  ComputeKpiStatus(current, day, target, d, f, day) \notin {"stale", "no_data"}
<1>1. PeriodsBehind(day, day, f) = 0
  <2>1. MonthOf[day] \in Nat
    BY CalendarAssumption
  <2>2. PeriodIndex(PeriodOf(MonthOf[day], f), f) \in Int
    BY <2>1, IndexNeverFalls
  <2> QED
    BY <2>2 DEF PeriodsBehind
<1>2. day # Null
  BY CalendarAssumption, NullAssumption
<1>3. Banded(current, target, d) \notin {"stale", "no_data"}
  BY DEF Banded
<1> QED
  BY <1>1, <1>2, <1>3 DEF ComputeKpiStatus

\* The latest reading up to a day is a reading; and it is of the day if the day has one.
LEMMA LatestReached ==
  ASSUME NEW readings \in SUBSET Reading, NEW day \in Days
  PROVE  LET reached == {r \in readings : r.day <= day}
         IN /\ reached # {} => Latest(reached) \in reached
            /\ \A r \in readings : r.day = day => r \in reached /\ Latest(reached).day = day
<1> DEFINE reached == {r \in readings : r.day <= day}
           Last(r) == \A s \in reached : s.day <= r.day
<1>1. day \in Nat /\ \A r \in readings : r.day \in Nat
  BY CalendarAssumption DEF Reading
<1>2. ASSUME reached # {} PROVE Latest(reached) \in reached /\ Last(Latest(reached))
  <2> DEFINE early == {day - r.day : r \in reached}
  <2>1. early \in SUBSET Nat /\ early # {}
    <3>1. \A r \in reached : day - r.day \in Nat
      BY <1>1
    <3> HIDE DEF reached
    <3> QED
      BY <1>2, <3>1
  <2>2. PICK least \in early : \A n \in early : least <= n
    <3> HIDE DEF early
    <3> QED
      BY <2>1, LeastNatural
  <2>3. PICK r \in reached : least = day - r.day
    OBVIOUS
  <2>4. Last(r)
    <3> SUFFICES ASSUME NEW s \in reached PROVE s.day <= r.day
      OBVIOUS
    <3>1. day - r.day <= day - s.day
      BY <2>2, <2>3
    <3> QED
      BY <1>1, <3>1
  <2>5. Latest(reached) = CHOOSE t \in reached : Last(t)
    BY DEF Latest
  <2> HIDE DEF reached, Last
  <2> QED
    BY <2>4, <2>5
<1>3. ASSUME NEW r \in readings, r.day = day
      PROVE  r \in reached /\ Latest(reached).day = day
  <2>1. r \in reached
    BY <1>1, <1>3
  <2>2. Latest(reached) \in reached /\ r.day <= Latest(reached).day
    BY <1>2, <2>1
  <2>3. Latest(reached).day \in Nat /\ Latest(reached).day <= day
    BY <1>1, <2>2
  <2> QED
    BY <1>1, <1>3, <2>1, <2>2, <2>3
<1> QED
  BY <1>2, <1>3

\* The part of a step that TimeOnlyAges speaks about.
Ages ==
  today' # today =>
    LET row == Row  next == Row' IN
      IF \E r \in facts.readings : r.day = today'
      THEN next.status \notin {"stale", "no_data"}
      ELSE /\ row.status = "stale" => next.status = "stale"
           /\ next.status \in {row.status, "stale"} \/ next.target # row.target

LEMMA StepAges ==
  ASSUME ScoreTypeOK, [ScoreNext]_scoreVars
  PROVE  Ages
<1> SUFFICES ASSUME today' # today PROVE Ages
  BY DEF Ages
<1>1. PassDay
  BY DEF ScoreNext, scoreVars, PutReading, DropReading, PutTarget, DropTarget, PatchMeasure
<1>2. today' = today + 1 /\ UNCHANGED facts /\ today \in Days /\ today + 1 \in Days /\ today \in Nat
  BY <1>1, CalendarAssumption DEF PassDay, ScoreTypeOK
<1>3. facts.frequency \in Frequency /\ facts.readings \in SUBSET Reading
  BY DEF ScoreTypeOK, Facts
<1> DEFINE status(reading, target, day) ==
             ComputeKpiStatus(ValueOf(reading), DayOf(reading), target, facts.direction,
                              facts.frequency, day)
           now == Row.target
           next == Row'.target
           read == Current
           reads == Current'
<1>4. Row.status = status(read, ValueOf(now), today)
  BY DEF Row, DeriveMeta
<1>5. Row'.status = status(reads, ValueOf(next), today + 1)
  BY <1>2 DEF Row, DeriveMeta
<1>6. CASE \E r \in facts.readings : r.day = today'
  <2>1. reads \in Reading /\ reads.day = today + 1
    <3> DEFINE reached == {r \in facts.readings : r.day <= today + 1}
    <3>1. reached # {} /\ Latest(reached) \in reached /\ Latest(reached).day = today + 1
      BY <1>2, <1>3, <1>6, LatestReached
    <3>2. reads = IF reached = {} THEN Null ELSE Latest(reached)
      BY <1>2 DEF Current, Latest
    <3> QED
      BY <1>3, <3>1, <3>2
  <2>2. reads # Null /\ reads.value # Null
    BY <2>1, NullAssumption, AmountAssumption DEF Reading
  <2>3. ValueOf(reads) = reads.value /\ DayOf(reads) = today + 1
    BY <2>1, <2>2 DEF ValueOf, DayOf
  <2> HIDE DEF reads, next
  <2>4. status(reads, ValueOf(next), today + 1) \notin {"stale", "no_data"}
    BY <1>2, <1>3, <2>2, <2>3, FreshToday
  <2> QED
    BY <1>5, <1>6, <2>4 DEF Ages
<1>7. CASE ~ \E r \in facts.readings : r.day = today'
  <2>1. reads = read
    <3>1. {r \in facts.readings : r.day <= today + 1} = {r \in facts.readings : r.day <= today}
      <4>1. \A r \in facts.readings : r.day \in Nat /\ r.day # today + 1
        BY <1>2, <1>3, <1>7, CalendarAssumption DEF Reading
      <4> QED
        BY <1>2, <4>1
    <3> QED
      BY <1>2, <3>1 DEF Current
  <2>2. DayOf(read) \in Days \cup {Null}
    <3>1. read # Null => read \in Reading
      BY <1>2, <1>3, LatestReached DEF Current
    <3> HIDE DEF read
    <3> QED
      BY <3>1, CalendarAssumption DEF DayOf, Reading
  <2>3. \A target, later :
          /\ status(read, target, today) = "stale" => status(read, later, today + 1) = "stale"
          /\ status(read, target, today + 1) \in {status(read, target, today), "stale"}
    <3> HIDE DEF read
    <3> QED
      BY <1>2, <1>3, <2>2, StatusAges
  <2> HIDE DEF status, now, next, read, reads
  <2>4. /\ Row.status = "stale" => Row'.status = "stale"
        /\ now = next => Row'.status \in {Row.status, "stale"}
    BY <1>4, <1>5, <2>1, <2>3
  <2> QED
    BY <1>7, <2>4 DEF Ages, now, next
<1> QED
  BY <1>6, <1>7

\* A whole quotient of 100 or more comes from a dividend that is 100 times the divisor or more.
LEMMA QuotientAtLeast ==
  ASSUME NEW a \in Nat, NEW b \in Nat \ {0}, a \div b >= 100
  PROVE  a >= 100 * b
<1>1. a = b * (a \div b) + (a % b) /\ a % b >= 0 /\ a \div b \in Nat
  OBVIOUS
<1>2. b * (a \div b) >= b * 100
  BY <1>1
<1> QED
  BY <1>1, <1>2

\* A better value of today never ranks as more severe against a target that is not negative, and a
\* gauge of 100 percent or more is on target: for every amount, not only those of the run.
THEOREM BetterRanksNoWorse ==
  ASSUME NEW target \in Nat, NEW value \in Int, NEW other \in Int, NEW d \in Direction,
         NEW f \in Frequency, NEW now \in Days
  PROVE  /\ Meets(value, other, d) =>
              SeverityRank[ComputeKpiStatus(value, now, target, d, f, now)]
                >= SeverityRank[ComputeKpiStatus(other, now, target, d, f, now)]
         /\ AchievementOf(value, target, d) # Null /\ AchievementOf(value, target, d) >= 100
              => ComputeKpiStatus(value, now, target, d, f, now) = "on_target"
<1> DEFINE read(v) == IF target = 0 \/ Sign(v) # Sign(target)
                      THEN IF Meets(v, target, d) THEN "on_target" ELSE "off_target"
                      ELSE Banded(v, target, d)
<1>1. \A v \in Int : ComputeKpiStatus(v, now, target, d, f, now) = read(v)
  <2>1. PeriodsBehind(now, now, f) = 0
    <3>1. MonthOf[now] \in Nat
      BY CalendarAssumption
    <3>2. PeriodIndex(PeriodOf(MonthOf[now], f), f) \in Int
      BY <3>1, IndexNeverFalls
    <3> QED
      BY <3>2 DEF PeriodsBehind
  <2>2. Null \notin Int /\ now # Null
    BY NullAssumption, CalendarAssumption
  <2> QED
    BY <2>1, <2>2 DEF ComputeKpiStatus
<1>2. \A v \in Int : read(v) =
        IF d = "higher"
        THEN IF 100 * v >= 99 * target THEN "on_target"
             ELSE IF v > 0 /\ 100 * v >= 85 * target THEN "near_target" ELSE "off_target"
        ELSE IF 100 * v <= 101 * target THEN "on_target"
             ELSE IF target > 0 /\ 100 * v <= 118 * target THEN "near_target" ELSE "off_target"
  BY DEF Sign, Meets, Banded, RatioAtLeast, RatioAtMost, Band, Direction
<1> HIDE DEF read
<1>3. Meets(value, other, d) => SeverityRank[read(value)] >= SeverityRank[read(other)]
  <2>1. CASE d = "higher"
    BY <1>2, <2>1 DEF Meets, SeverityRank
  <2>2. CASE d = "lower"
    BY <1>2, <2>2 DEF Meets, SeverityRank
  <2> QED
    BY <2>1, <2>2 DEF Direction
<1>4. AchievementOf(value, target, d) # Null /\ AchievementOf(value, target, d) >= 100
        => read(value) = "on_target"
  <2> SUFFICES ASSUME AchievementOf(value, target, d) # Null,
                      AchievementOf(value, target, d) >= 100
               PROVE  read(value) = "on_target"
    OBVIOUS
  <2>1. target \in Nat \ {0} /\ value \in Nat \ {0}
    BY DEF AchievementOf
  <2>2. CASE d = "higher"
    <3>1. (100 * value) \div target >= 100 /\ 100 * value \in Nat
      BY <2>1, <2>2, NullAssumption DEF AchievementOf
    <3>2. 100 * value >= 100 * target
      BY <2>1, <3>1, QuotientAtLeast
    <3> QED
      BY <1>2, <2>1, <2>2, <3>2
  <2>3. CASE d = "lower"
    <3>1. (100 * target) \div value >= 100 /\ 100 * target \in Nat
      BY <2>1, <2>3, NullAssumption DEF AchievementOf
    <3>2. 100 * target >= 100 * value
      BY <2>1, <3>1, QuotientAtLeast
    <3> QED
      BY <1>2, <2>1, <2>3, <3>2
  <2> QED
    BY <2>2, <2>3 DEF Direction
<1> QED
  BY <1>1, <1>3, <1>4

-----------------------------------------------------------------------------
(* The effective target                                                    *)

UniquePeriods ==
  \A t, u \in facts.targets : t.year = u.year /\ t.period = u.period => t = u

LEMMA UniqueInit == ScoreInit => UniquePeriods
<1> QED
  BY DEF ScoreInit, UniquePeriods

LEMMA UniqueNext ==
  ASSUME ScoreTypeOK, UniquePeriods, [ScoreNext]_scoreVars
  PROVE  UniquePeriods'
<1>1. facts \in Facts
  BY DEF ScoreTypeOK
<1>2. ASSUME facts'.targets \subseteq facts.targets PROVE UniquePeriods'
  BY <1>2 DEF UniquePeriods
<1>3. ASSUME UNCHANGED scoreVars \/ PassDay PROVE UniquePeriods'
  BY <1>2, <1>3 DEF scoreVars, PassDay
<1>4. ASSUME NEW r \in Reading, PutReading(r) PROVE UniquePeriods'
  BY <1>1, <1>2, <1>4 DEF PutReading, Facts
<1>8. ASSUME NEW r \in facts.readings, DropReading(r) PROVE UniquePeriods'
  BY <1>1, <1>2, <1>8 DEF DropReading, Facts
<1>5. ASSUME NEW t \in Target, PutTarget(t) PROVE UniquePeriods'
  <2> DEFINE others == {u \in facts.targets : u.year # t.year \/ u.period # t.period}
  <2>1. facts'.targets = others \cup {t}
    BY <1>1, <1>5 DEF PutTarget, Facts
  <2> QED
    BY <2>1 DEF UniquePeriods
<1>6. ASSUME NEW t \in facts.targets, DropTarget(t) PROVE UniquePeriods'
  BY <1>1, <1>2, <1>6 DEF DropTarget, Facts
<1>7. ASSUME NEW f \in Frequency, NEW d \in Direction, PatchMeasure(f, d) PROVE UniquePeriods'
  BY <1>1, <1>2, <1>7 DEF PatchMeasure, Facts
<1> QED
  BY <1>3, <1>4, <1>5, <1>6, <1>7, <1>8 DEF ScoreNext

LEMMA UniqueAlways == ScoreSpec => [](ScoreTypeOK /\ UniquePeriods)
<1> QED
  BY InitTyped, NextTyped, UniqueInit, UniqueNext, PTL DEF ScoreSpec

LEMMA PeriodsOfFrequency ==
  ASSUME NEW f \in Frequency
  PROVE  /\ PeriodsPerYear(f) \in {1, 4, 12}
         /\ MonthsPerPeriod(f) \in Nat \ {0}
         /\ PeriodsPerYear(f) * MonthsPerPeriod(f) = 12
<1>1. PeriodsPerYear("monthly") = 12 /\ PeriodsPerYear("quarterly") = 4 /\ PeriodsPerYear("annual") = 1
  BY DEF PeriodsPerYear
<1>2. MonthsPerPeriod("monthly") = 1 /\ MonthsPerPeriod("quarterly") = 3 /\ MonthsPerPeriod("annual") = 12
  BY <1>1 DEF MonthsPerPeriod
<1> QED
  BY <1>1, <1>2 DEF Frequency

\* The index tells fitting periods apart, and from it the period comes back.
LEMMA IndexOfPeriod ==
  ASSUME NEW f \in Frequency, NEW y \in Nat, NEW n \in 1 .. PeriodsPerYear(f)
  PROVE  /\ y * PeriodsPerYear(f) + n - 1 \in Nat
         /\ (y * PeriodsPerYear(f) + n - 1) \div PeriodsPerYear(f) = y
         /\ (y * PeriodsPerYear(f) + n - 1) % PeriodsPerYear(f) = n - 1
<1>1. CASE PeriodsPerYear(f) = 1
  BY <1>1
<1>2. CASE PeriodsPerYear(f) = 4
  BY <1>2
<1>3. CASE PeriodsPerYear(f) = 12
  BY <1>3
<1> QED
  BY <1>1, <1>2, <1>3, PeriodsOfFrequency

\* A period by no periods is itself.
LEMMA ShiftByNone ==
  ASSUME NEW f \in Frequency, NEW y \in Nat, NEW n \in 1 .. PeriodsPerYear(f)
  PROVE  ShiftPeriod([year |-> y, period |-> n], 0, f) = [year |-> y, period |-> n]
<1>1. PeriodIndex([year |-> y, period |-> n], f) = y * PeriodsPerYear(f) + n - 1
  BY DEF PeriodIndex
<1>2. PeriodIndex([year |-> y, period |-> n], f) + 0 = y * PeriodsPerYear(f) + n - 1
  BY <1>1, IndexOfPeriod
<1>3. n - 1 + 1 = n
  BY PeriodsOfFrequency
<1> QED
  BY <1>2, <1>3, IndexOfPeriod DEF ShiftPeriod

\* Today's period is one that the frequency has.
LEMMA PeriodOfFits ==
  ASSUME NEW m \in Nat, NEW f \in Frequency
  PROVE  PeriodOf(m, f).year \in Nat /\ PeriodOf(m, f).period \in 1 .. PeriodsPerYear(f)
<1>1. PeriodsPerYear("monthly") = 12 /\ PeriodsPerYear("quarterly") = 4 /\ PeriodsPerYear("annual") = 1
  BY DEF PeriodsPerYear
<1>2. MonthsPerPeriod("monthly") = 1 /\ MonthsPerPeriod("quarterly") = 3 /\ MonthsPerPeriod("annual") = 12
  BY <1>1 DEF MonthsPerPeriod
<1>3. PICK r \in 0 .. 11 : r = m % 12
  OBVIOUS
<1>4. PeriodOf(m, f).year = m \div 12 /\ PeriodOf(m, f).period = (r \div MonthsPerPeriod(f)) + 1
  BY <1>3 DEF PeriodOf
<1>5. m \div 12 \in Nat /\ r \div 1 = r /\ r \div 3 \in 0 .. 3 /\ r \div 12 = 0
  BY <1>3
<1> QED
  BY <1>1, <1>2, <1>4, <1>5 DEF Frequency

\* In months: a period is not over by the month m if and only if its index is not behind.
LEMMA AheadByIndex ==
  ASSUME NEW m \in Nat, NEW f \in Frequency, NEW y \in Nat, NEW n \in 1 .. PeriodsPerYear(f),
         NEW p, p.year = y, p.period = n
  PROVE  /\ PeriodRange(p, f).from = MonthsPerPeriod(f) * PeriodIndex(p, f)
         /\ PeriodRange(p, f).to >= m <=> PeriodIndex(p, f) >= PeriodIndex(PeriodOf(m, f), f)
<1>1. PeriodsPerYear("monthly") = 12 /\ PeriodsPerYear("quarterly") = 4 /\ PeriodsPerYear("annual") = 1
  BY DEF PeriodsPerYear
<1>2. MonthsPerPeriod("monthly") = 1 /\ MonthsPerPeriod("quarterly") = 3 /\ MonthsPerPeriod("annual") = 12
  BY <1>1 DEF MonthsPerPeriod
<1>3. PeriodIndex(p, f) = y * PeriodsPerYear(f) + n - 1
  BY DEF PeriodIndex
<1>4. PeriodRange(p, f).from = 12 * y + (n - 1) * MonthsPerPeriod(f)
      /\ PeriodRange(p, f).to = 12 * y + (n - 1) * MonthsPerPeriod(f) + MonthsPerPeriod(f) - 1
  BY DEF PeriodRange
<1> DEFINE from == PeriodRange(p, f).from
           to == PeriodRange(p, f).to
           index == PeriodIndex(p, f)
           now == PeriodIndex(PeriodOf(m, f), f)
<1>5. CASE f = "monthly"
  <2>1. PeriodsPerYear(f) = 12 /\ MonthsPerPeriod(f) = 1 /\ n \in 1 .. 12
    BY <1>1, <1>2, <1>5
  <2>2. index = y * 12 + n - 1 /\ from = 12 * y + (n - 1) * 1 /\ to = 12 * y + (n - 1) * 1 + 1 - 1
    BY <1>3, <1>4, <2>1
  <2>3. now = m
    BY <1>5, IndexOfMonth
  <2> HIDE DEF from, to, index, now
  <2>4. from = 1 * index /\ (to >= m <=> index >= now)
    BY <2>1, <2>2, <2>3
  <2> QED
    BY <2>1, <2>4 DEF from, to, index, now
<1>6. CASE f = "quarterly"
  <2>1. PeriodsPerYear(f) = 4 /\ MonthsPerPeriod(f) = 3 /\ n \in 1 .. 4
    BY <1>1, <1>2, <1>6
  <2>2. index = y * 4 + n - 1 /\ from = 12 * y + (n - 1) * 3 /\ to = 12 * y + (n - 1) * 3 + 3 - 1
    BY <1>3, <1>4, <2>1
  <2>3. now = m \div 3
    BY <1>6, IndexOfMonth
  <2> HIDE DEF from, to, index, now
  <2>4. from = 3 * index /\ (to >= m <=> index >= now)
    BY <2>1, <2>2, <2>3
  <2> QED
    BY <2>1, <2>4 DEF from, to, index, now
<1>7. CASE f = "annual"
  <2>1. PeriodsPerYear(f) = 1 /\ MonthsPerPeriod(f) = 12 /\ n \in 1 .. 1
    BY <1>1, <1>2, <1>7
  <2>2. index = y * 1 + n - 1 /\ from = 12 * y + (n - 1) * 12 /\ to = 12 * y + (n - 1) * 12 + 12 - 1
    BY <1>3, <1>4, <2>1
  <2>3. now = m \div 12
    BY <1>7, IndexOfMonth
  <2> HIDE DEF from, to, index, now
  <2>4. from = 12 * index /\ (to >= m <=> index >= now)
    BY <2>1, <2>2, <2>3
  <2> QED
    BY <2>1, <2>4 DEF from, to, index, now
<1> QED
  BY <1>5, <1>6, <1>7 DEF Frequency

\* Of any targets, none if no target is ahead, else one with the least index.
LEMMA EffectiveTarget ==
  ASSUME NEW f \in Frequency, NEW targets \in SUBSET Target, NEW p
  PROVE  LET chosen == ResolveEffectiveTarget(targets, p, f)
             open == {t \in targets : PeriodIndex(t, f) >= PeriodIndex(p, f)}
         IN /\ open = {} => chosen = Null
            /\ open # {} => /\ chosen \in open
                            /\ \A t \in open : PeriodIndex(chosen, f) <= PeriodIndex(t, f)
<1> DEFINE chosen == ResolveEffectiveTarget(targets, p, f)
           open == {t \in targets : PeriodIndex(t, f) >= PeriodIndex(p, f)}
           indexes == {PeriodIndex(t, f) : t \in open}
           earliest(n) == {t \in open : PeriodIndex(t, f) = n}
           years(n) == {t.year : t \in earliest(n)}
           First(t) == \A u \in open : \/ PeriodIndex(t, f) < PeriodIndex(u, f)
                                       \/ PeriodIndex(t, f) = PeriodIndex(u, f) /\ ListedBefore(t, u)
<1>1. \A t \in targets : t.year \in Nat /\ t.period \in 1 .. 12
  BY CalendarAssumption DEF Target
<1>2. PeriodsPerYear(f) \in {1, 4, 12}
  BY PeriodsOfFrequency
<1>3. \A t \in targets :
        /\ PeriodIndex(t, f) = t.year * PeriodsPerYear(f) + t.period - 1
        /\ PeriodIndex(t, f) \in Nat
  <2> SUFFICES ASSUME NEW t \in targets
               PROVE  /\ PeriodIndex(t, f) = t.year * PeriodsPerYear(f) + t.period - 1
                      /\ PeriodIndex(t, f) \in Nat
    OBVIOUS
  <2> DEFINE y == t.year
             n == t.period
             k == PeriodsPerYear(f)
  <2>1. y \in Nat /\ n \in 1 .. 12 /\ k \in {1, 4, 12}
    BY <1>1, <1>2
  <2>2. PeriodIndex(t, f) = y * k + n - 1
    BY DEF PeriodIndex
  <2> HIDE DEF y, n, k
  <2>3. y * k + n - 1 \in Nat
    BY <2>1
  <2> QED
    BY <2>2, <2>3 DEF y, n, k
<1>4. CASE open = {}
  BY <1>4 DEF ResolveEffectiveTarget
<1>5. CASE open # {}
  <2>1. PICK least \in indexes : \A n \in indexes : least <= n
    <3>1. indexes \in SUBSET Nat /\ indexes # {}
      BY <1>3, <1>5
    <3> HIDE DEF indexes
    <3> QED
      BY <3>1, LeastNatural
  <2>2. PICK year \in years(least) : \A n \in years(least) : year <= n
    <3>1. years(least) \in SUBSET Nat /\ years(least) # {}
      BY <1>1, <2>1
    <3> HIDE DEF years
    <3> QED
      BY <3>1, LeastNatural
  <2>3. PICK t \in earliest(least) : t.year = year
    OBVIOUS
  <2>4. First(t)
    <3> SUFFICES ASSUME NEW u \in open
                 PROVE  \/ PeriodIndex(t, f) < PeriodIndex(u, f)
                        \/ PeriodIndex(t, f) = PeriodIndex(u, f) /\ ListedBefore(t, u)
      OBVIOUS
    <3>1. PeriodIndex(t, f) <= PeriodIndex(u, f)
      BY <2>1, <2>3
    <3>2. PeriodIndex(t, f) \in Nat /\ PeriodIndex(u, f) \in Nat
      BY <1>3
    <3>3. CASE PeriodIndex(t, f) = PeriodIndex(u, f)
      <4>1. u \in earliest(least)
        BY <2>3, <3>3
      <4>2. t.year <= u.year /\ t.year \in Nat /\ u.year \in Nat /\ t.period \in Int /\ u.period \in Int
        BY <1>1, <2>2, <2>3, <4>1
      <4>3. t.year = u.year => t.period = u.period
        <5> SUFFICES ASSUME t.year = u.year PROVE t.period = u.period
          OBVIOUS
        <5> DEFINE base == t.year * PeriodsPerYear(f)
        <5>1. base \in Int
          BY <1>2, <4>2
        <5>2. base + t.period - 1 = base + u.period - 1
          BY <1>3, <3>3
        <5> HIDE DEF base
        <5> QED
          BY <4>2, <5>1, <5>2
      <4> QED
        BY <3>3, <4>2, <4>3 DEF ListedBefore
    <3> QED
      BY <3>1, <3>2, <3>3
  <2>5. chosen = CHOOSE v \in open : First(v)
    BY <1>5 DEF ResolveEffectiveTarget
  <2>6. chosen \in open /\ First(chosen)
    <3> HIDE DEF First, open, chosen
    <3> QED
      BY <2>3, <2>4, <2>5
  <2>7. \A u \in open : PeriodIndex(chosen, f) <= PeriodIndex(u, f)
    BY <1>3, <2>6
  <2> QED
    BY <1>5, <2>6, <2>7
<1> QED
  BY <1>4, <1>5

\* The target of a period that has one is that one.
LEMMA TargetInPeriod ==
  ASSUME NEW targets, NEW t \in targets, NEW p, p.year = t.year, p.period = t.period,
         \A u, v \in targets : u.year = v.year /\ u.period = v.period => u = v
  PROVE  TargetIn(targets, p) = t
<1>1. \E u \in targets : u.year = p.year /\ u.period = p.period
  OBVIOUS
<1>2. TargetIn(targets, p) \in targets
      /\ TargetIn(targets, p).year = p.year /\ TargetIn(targets, p).period = p.period
  BY <1>1 DEF TargetIn
<1> QED
  BY <1>2

LEMMA SaneTargets ==
  ASSUME ScoreTypeOK, UniquePeriods, Sane
  PROVE  /\ facts.frequency \in Frequency /\ facts.targets \in SUBSET Target /\ MonthOf[today] \in Nat
         /\ \A t \in facts.targets : t.period <= PeriodsPerYear(facts.frequency)
         /\ \A t, u \in facts.targets : t.year = u.year /\ t.period = u.period => t = u
         /\ \A t \in facts.targets :
              t.year \in Nat /\ t.period \in 1 .. PeriodsPerYear(facts.frequency)
<1>1. facts.frequency \in Frequency /\ facts.targets \in SUBSET Target /\ MonthOf[today] \in Nat
  BY CalendarAssumption DEF ScoreTypeOK, Facts
<1>2. \A t \in facts.targets : t.year \in Nat /\ t.period \in 1 .. 12
  BY <1>1, CalendarAssumption DEF Target
<1>3. PeriodsPerYear(facts.frequency) \in Nat
  BY <1>1, PeriodsOfFrequency
<1> QED
  BY <1>1, <1>2, <1>3 DEF Sane, UniquePeriods

\* EffectiveTargetIsNext, of a state that is typed and has one target for a period.
LEMMA EffectiveNow ==
  ASSUME ScoreTypeOK, UniquePeriods
  PROVE  EffectiveTargetIsNext
<1> SUFFICES ASSUME Sane PROVE EffectiveTargetIsNext
  BY DEF EffectiveTargetIsNext
<1> DEFINE f == facts.frequency
           p == PeriodOf(MonthOf[today], f)
           chosen == Row.target
           range(t) == PeriodRange(t, f)
           ahead == {t \in facts.targets : range(t).to >= MonthOf[today]}
           open == {t \in facts.targets : PeriodIndex(t, f) >= PeriodIndex(p, f)}
<1>1. chosen = ResolveEffectiveTarget(facts.targets, PeriodOf(MonthOf[today], f), f)
  <2>1. f \in Frequency /\ PeriodOf(MonthOf[today], f).year \in Nat
        /\ PeriodOf(MonthOf[today], f).period \in 1 .. PeriodsPerYear(f)
    BY SaneTargets, PeriodOfFits
  <2>2. ShiftPeriod(PeriodOf(MonthOf[today], f), 0, f) = PeriodOf(MonthOf[today], f)
    BY <2>1, ShiftByNone DEF PeriodOf
  <2> QED
    BY <2>2 DEF Row, DeriveMeta, ThisPeriod
<1>2. \A t \in facts.targets :
        /\ range(t).to >= MonthOf[today] <=> PeriodIndex(t, f) >= PeriodIndex(p, f)
        /\ range(t).from = MonthsPerPeriod(f) * PeriodIndex(t, f)
        /\ PeriodIndex(t, f) \in Nat
  <2> SUFFICES ASSUME NEW t \in facts.targets
               PROVE  /\ range(t).to >= MonthOf[today] <=> PeriodIndex(t, f) >= PeriodIndex(p, f)
                      /\ range(t).from = MonthsPerPeriod(f) * PeriodIndex(t, f)
                      /\ PeriodIndex(t, f) \in Nat
    OBVIOUS
  <2>1. f \in Frequency /\ MonthOf[today] \in Nat /\ t.year \in Nat /\ t.period \in 1 .. PeriodsPerYear(f)
    BY SaneTargets
  <2>2. PeriodIndex(t, f) \in Nat
    BY <2>1, IndexOfPeriod DEF PeriodIndex
  <2> QED
    BY <2>1, <2>2, AheadByIndex
<1>3. ahead = open
  BY <1>2
<1>4. /\ open = {} => chosen = Null
      /\ open # {} => /\ chosen \in open
                      /\ \A t \in open : PeriodIndex(chosen, f) <= PeriodIndex(t, f)
  <2> HIDE DEF chosen
  <2> QED
    BY <1>1, SaneTargets, EffectiveTarget
<1>5. ASSUME open # {} PROVE \A t \in open : range(chosen).from <= range(t).from
  <2> SUFFICES ASSUME NEW t \in open PROVE range(chosen).from <= range(t).from
    OBVIOUS
  <2> DEFINE i == PeriodIndex(chosen, f)
             j == PeriodIndex(t, f)
             n == MonthsPerPeriod(f)
  <2>1. i \in Nat /\ j \in Nat /\ i <= j /\ n \in Nat \ {0}
    BY <1>2, <1>4, <1>5, SaneTargets, PeriodsOfFrequency
  <2>2. range(chosen).from = n * i /\ range(t).from = n * j
    BY <1>2, <1>4, <1>5
  <2> HIDE DEF i, j, n
  <2>3. n * i <= n * j
    BY <2>1
  <2> QED
    BY <2>2, <2>3
<1>6. IF ahead = {} THEN chosen = Null
      ELSE /\ chosen \in ahead
           /\ \A t \in ahead : range(chosen).from <= range(t).from
  BY <1>3, <1>4, <1>5
<1> QED
  BY <1>6 DEF EffectiveTargetIsNext

\* RecordAgreesWithList, of the same states.
LEMMA AgreesNow ==
  ASSUME ScoreTypeOK, UniquePeriods
  PROVE  RecordAgreesWithList
<1> DEFINE f == facts.frequency
           now == PeriodOf(MonthOf[today], f)
           centred == DetailBase = now
           entry(offset) == PeriodEntry(offset)
           listed(offset) == DeriveMeta(offset)
<1> SUFFICES ASSUME Sane, NEW offset \in {-1, 0, 1}, offset = 0 \/ centred
             PROVE  /\ entry(offset).target = ValueOf(listed(offset).target)
                    /\ entry(offset).achievement = listed(offset).achievement
                    /\ entry(offset).status = listed(offset).status
  BY DEF RecordAgreesWithList, ThisPeriod
<1>1. f \in Frequency /\ now.year \in Nat /\ now.period \in 1 .. PeriodsPerYear(f)
      /\ now = [year |-> now.year, period |-> now.period]
  BY SaneTargets, PeriodOfFits DEF PeriodOf
<1>2. CASE offset # 0
  <2>1. ShiftPeriod(DetailBase, offset, f) = ShiftPeriod(now, offset, f)
    BY <1>2
  <2>2. entry(offset).target = ValueOf(listed(offset).target)
    BY <1>2, <2>1 DEF PeriodEntry, DeriveMeta, ThisPeriod
  <2> QED
    BY <1>2, <2>1, <2>2 DEF PeriodEntry, DeriveMeta, ThisPeriod
<1>3. CASE offset = 0
  <2> DEFINE chosen == DeriveMeta(0).target
             open == {t \in facts.targets : PeriodIndex(t, f) >= PeriodIndex(now, f)}
             p == ShiftPeriod(DetailBase, 0, f)
  <2>1. chosen = ResolveEffectiveTarget(facts.targets, now, f)
    BY <1>1, ShiftByNone DEF DeriveMeta, ThisPeriod
  <2>2. /\ open = {} => chosen = Null
        /\ open # {} => chosen \in open
    <3> HIDE DEF chosen
    <3> QED
      BY <2>1, SaneTargets, EffectiveTarget
  <2>3. ValueOf(TargetIn(facts.targets, p)) = ValueOf(chosen)
    <3>1. CASE chosen = Null
      <4>1. DetailBase = now
        BY <3>1 DEF DetailBase, ThisPeriod
      <4>2. p = now
        BY <1>1, <4>1, ShiftByNone
      <4>3. ~ \E t \in facts.targets : t.year = now.year /\ t.period = now.period
        <5> SUFFICES ASSUME NEW t \in facts.targets, t.year = now.year, t.period = now.period
                     PROVE  FALSE
          OBVIOUS
        <5>1. PeriodIndex(t, f) = PeriodIndex(now, f) /\ PeriodIndex(t, f) \in Nat
          BY <1>1, IndexOfPeriod DEF PeriodIndex
        <5>2. t \in open
          BY <5>1
        <5>3. chosen \in open
          BY <2>2, <5>2
        <5>4. chosen \in Target
          BY <5>3, SaneTargets
        <5> QED
          BY <3>1, <5>4, NullAssumption
      <4> QED
        BY <3>1, <4>2, <4>3 DEF TargetIn
    <3>2. CASE chosen # Null
      <4>1. chosen \in facts.targets
        BY <2>2, <3>2
      <4>2. DetailBase = [year |-> chosen.year, period |-> chosen.period]
        BY <3>2 DEF DetailBase
      <4>3. chosen.year \in Nat /\ chosen.period \in 1 .. PeriodsPerYear(f)
        BY <4>1, SaneTargets
      <4>4. p = [year |-> chosen.year, period |-> chosen.period]
        BY <1>1, <4>2, <4>3, ShiftByNone
      <4>5. p.year = chosen.year /\ p.period = chosen.period
        BY <4>4
      <4>6. TargetIn(facts.targets, p) = chosen
        <5> HIDE DEF chosen, p
        <5> QED
          BY <4>1, <4>5, SaneTargets, TargetInPeriod
      <4> QED
        BY <4>6
    <3> QED
      BY <3>1, <3>2
  <2>4. entry(0).target = ValueOf(chosen)
    BY <2>3 DEF PeriodEntry
  <2>5. entry(0).achievement = AchievementOf(ValueOf(Current), ValueOf(chosen), facts.direction)
    BY <2>3 DEF PeriodEntry
  <2>6. entry(0).status = listed(0).status
    BY DEF PeriodEntry
  <2>7. listed(0).achievement = AchievementOf(ValueOf(Current), ValueOf(chosen), facts.direction)
    BY DEF DeriveMeta
  <2> QED
    BY <1>3, <2>4, <2>5, <2>6, <2>7
<1> QED
  BY <1>2, <1>3

\* BetterNeverReadsWorse, of a typed state.
LEMMA BetterNow ==
  ASSUME ScoreTypeOK
  PROVE  BetterNeverReadsWorse
<1> DEFINE target == ValueOf(Row.target)
           d == facts.direction
           f == facts.frequency
           of(value) == ComputeKpiStatus(value, today, target, d, f, today)
           status == [value \in Amounts |-> of(value)]
<1> SUFFICES ASSUME target # Null, ~ (target < 0), NEW value \in Amounts
             PROVE  /\ \A other \in Amounts : Meets(value, other, d) =>
                         SeverityRank[status[value]] >= SeverityRank[status[other]]
                    /\ LET gauge == AchievementOf(value, target, d)
                       IN gauge # Null => (gauge >= 100 => status[value] = "on_target")
  BY DEF BetterNeverReadsWorse
<1>1. f \in Frequency /\ d \in Direction /\ today \in Days /\ facts.targets \in SUBSET Target
  BY CalendarAssumption DEF ScoreTypeOK, Facts
<1>2. target \in Nat
  <2>1. Row.target \in facts.targets \cup {Null}
    <3> DEFINE p == ShiftPeriod(PeriodOf(MonthOf[today], f), 0, f)
    <3>1. Row.target = ResolveEffectiveTarget(facts.targets, p, f)
      BY DEF Row, DeriveMeta, ThisPeriod
    <3> HIDE DEF p
    <3>2. ResolveEffectiveTarget(facts.targets, p, f) \in facts.targets \cup {Null}
      BY <1>1, EffectiveTarget
    <3> QED
      BY <3>1, <3>2
  <2>2. Row.target \in Target
    BY <1>1, <2>1 DEF ValueOf
  <2>3. Row.target.value \in Int
    BY <2>2, AmountAssumption DEF Target
  <2> QED
    BY <2>2, <2>3, NullAssumption DEF ValueOf
<1>3. Amounts \subseteq Int /\ \A v \in Amounts : status[v] = of(v)
  BY AmountAssumption
<1> HIDE DEF target
<1> QED
  BY <1>1, <1>2, <1>3, BetterRanksNoWorse

-----------------------------------------------------------------------------
(* The score's theorems                                                    *)

\* The measure and the day keep their shape.
THEOREM ScoreTyped == ScoreSpec => []ScoreTypeOK
<1> QED
  BY TypedAlways

\* For all calendars, readings and targets, time alone changes a status only to stale, for good,
\* because another target is now the effective one, or because the day of a reading dated ahead is
\* reached, and then the measure is fresh (upTo, computeKpiStatus).
THEOREM TimeAgesOnly == ScoreSpec => TimeOnlyAges
<1>1. ScoreTypeOK /\ [ScoreNext]_scoreVars => [Ages]_scoreVars
  BY StepAges
<1>2. ScoreSpec => [][Ages]_scoreVars
  BY <1>1, TypedAlways, PTL DEF ScoreSpec
<1> QED
  BY <1>2 DEF TimeOnlyAges, Ages

\* For all targets, days and frequencies, the effective target is the one of the running period,
\* else of the next period that has one (resolveEffectiveTarget).
THEOREM EffectiveAlwaysNext == ScoreSpec => []EffectiveTargetIsNext
<1> QED
  BY EffectiveNow, UniqueAlways, PTL

\* For all measures and days, the record opens on the answer of its row, and agrees with the list
\* on the periods beside it (getKpiDetail, deriveMeta).
THEOREM RecordAlwaysAgrees == ScoreSpec => []RecordAgreesWithList
<1> QED
  BY AgreesNow, UniqueAlways, PTL

\* For all amounts, a better value never ranks as more severe, and a full gauge is on target.
THEOREM BetterAlwaysNoWorse == ScoreSpec => []BetterNeverReadsWorse
<1> QED
  BY BetterNow, TypedAlways, PTL
=============================================================================
