---------------------------- MODULE TasksProofs ----------------------------
(***************************************************************************)
(* What the hierarchy of tasks promises for any number of tasks, writes    *)
(* and operations.                                                         *)
(*                                                                         *)
(* Three properties need more than they say.  Positions are unique among   *)
(* the subtasks in the trash too (PositionsDiffer), or a restore could not *)
(* keep their order; rows deleted by one operation are one task and its    *)
(* subtasks (DeletedTogether), or a restore could take another's; and a    *)
(* completion's items are the statuses it found (ItemsAreExact).           *)
(***************************************************************************)
EXTENDS Tasks, TLAPS, FiniteSetTheorems, WellFoundedInduction

\* Siblings deleted together, or not at all, have different positions.
PositionsDiffer ==
  \A t, u \in Exists :
    /\ row[t].parent = row[u].parent /\ row[t].deletedOp = row[u].deletedOp
    /\ row[t].order = row[u].order
    => t = u

\* Rows of one deletion: a task and subtasks of it.
DeletedTogether ==
  \A t, u \in Exists :
    row[t].deletedOp # None /\ row[u].deletedOp = row[t].deletedOp /\ t # u =>
      \/ row[t].parent = u \/ row[u].parent = t
      \/ row[t].parent # None /\ row[u].parent = row[t].parent
         /\ row[row[t].parent].deletedOp = row[t].deletedOp

\* A completion's items are the tasks it wrote with their statuses; no row is older than its item.
ItemsExact(op) ==
  /\ DOMAIN asWas[op] = {item.task : item \in completion[op].items}
  /\ \A item \in completion[op].items :
       item.previous = asWas[op][item.task] /\ item.revision <= row[item.task].revision

ItemsAreExact == \A op \in DOMAIN completion : ItemsExact(op)

\* FenceMeansUntouched, of one completion.
FenceHolds(op) ==
  \A item \in completion[op].items :
    row[item.task].revision = item.revision =>
      item.task \notin changed[op] /\ row[item.task].status = "completed"

Structure == DepthOne /\ LiveBelowLive /\ PositionsDiffer /\ DeletedTogether

IInv == TypeOK /\ Structure /\ ItemsAreExact /\ FenceMeansUntouched

LEMMA InitInv == Init => IInv
<1> SUFFICES ASSUME Init PROVE IInv
  OBVIOUS
<1>1. Exists = {} /\ DOMAIN completion = {} /\ DOMAIN asWas = {} /\ DOMAIN changed = {}
  BY DEF Init, Exists
<1>2. TypeOK
  <2>1. row \in [Exists -> Row] /\ completion \in [DOMAIN completion -> Completion]
        /\ changed \in [DOMAIN completion -> SUBSET Task]
    BY <1>1 DEF Init
  <2> QED
    BY <1>1, <2>1 DEF TypeOK
<1>3. Structure
  BY <1>1 DEF Structure, DepthOne, LiveBelowLive, PositionsDiffer, DeletedTogether, Live
<1>4. ItemsAreExact /\ FenceMeansUntouched
  BY <1>1 DEF ItemsAreExact, FenceMeansUntouched
<1> QED
  BY <1>2, <1>3, <1>4 DEF IInv

-----------------------------------------------------------------------------
(* The next position                                                       *)

\* A number on each member of a finite set: one of them is the largest.
LEMMA Largest ==
  ASSUME NEW S, IsFiniteSet(S), S # {}, NEW f \in [S -> Nat]
  PROVE  \E c \in S : \A d \in S : f[d] <= f[c]
<1> DEFINE above(c) == {d \in S : f[d] > f[c]}
           T == {above(c) : c \in S}
<1>1. IsWellFoundedOn(StrictSubsetOrdering(S), SUBSET S)
  BY FS_StrictSubsetOrderingWellFounded, FS_FiniteSubsetsOfFinite
<1>2. T \subseteq SUBSET S /\ T # {}
  <2>1. \A c \in S : above(c) \in SUBSET S
    OBVIOUS
  <2>2. PICK c \in S : TRUE
    OBVIOUS
  <2>3. above(c) \in T
    BY <2>2
  <2> HIDE DEF above
  <2> QED
    BY <2>1, <2>3
<1> HIDE DEF T
<1>3. PICK A \in T : \A B \in T : <<B, A>> \notin StrictSubsetOrdering(S)
  BY <1>1, <1>2, WFMin
<1>4. PICK c \in S : A = above(c)
  BY <1>3 DEF T
<1> SUFFICES ASSUME NEW d \in S, ~ f[d] <= f[c] PROVE FALSE
  OBVIOUS
<1>5. f[d] > f[c] /\ d \in above(c) /\ d \notin above(d)
  OBVIOUS
<1>6. above(d) \subseteq above(c) /\ above(d) # above(c)
  BY <1>5
<1>7. above(d) \in T /\ above(d) \in SUBSET S /\ above(c) \in SUBSET S
  BY DEF T
<1> QED
  BY <1>3, <1>4, <1>6, <1>7 DEF StrictSubsetOrdering

LEMMA ChildrenFinite ==
  ASSUME TypeOK, NEW S \in SUBSET Exists
  PROVE  IsFiniteSet(S) /\ Cardinality(S) \in Nat
BY IdAssumption, FS_Subset, FS_CardinalityType DEF TypeOK

\* A task that comes last comes after all its siblings.
LEMMA NextOrderIsLast ==
  ASSUME TypeOK, NEW p
  PROVE  NextOrder(p) \in Nat /\ \A c \in Children(p) : row[c].order < NextOrder(p)
<1> DEFINE S == Children(p)
           f == [c \in S |-> row[c].order]
           orders == {row[c].order : c \in S}
           last(n) == n \notin orders /\ \A m \in orders : m < n
           candidates == orders \cup {m + 1 : m \in orders} \cup {0}
<1>1. S \subseteq Exists /\ f \in [S -> Nat] /\ orders \subseteq Nat
  BY DEF Children, TypeOK, Row
<1>2. NextOrder(p) = CHOOSE n \in candidates : last(n)
  BY DEF NextOrder
<1>3. candidates \subseteq Nat
  BY <1>1
<1>4. \E n \in candidates : last(n)
  <2>1. CASE S = {}
    BY <2>1
  <2>2. CASE S # {}
    <3>1. PICK c \in S : \A d \in S : f[d] <= f[c]
      BY <1>1, <2>2, ChildrenFinite, Largest
    <3>2. \A d \in S : row[d].order <= row[c].order /\ row[d].order \in Nat
      BY <1>1, <3>1
    <3>3. row[c].order + 1 \in candidates /\ last(row[c].order + 1)
      BY <3>2
    <3> QED
      BY <3>3
  <2> QED
    BY <2>1, <2>2
<1> HIDE DEF candidates, last
<1>5. NextOrder(p) \in candidates /\ last(NextOrder(p))
  BY <1>2, <1>4
<1> QED
  BY <1>3, <1>5 DEF last

-----------------------------------------------------------------------------
(* What a write does                                                       *)

\* Stamp gives a row the next revision and leaves the rest.
LEMMA Stamped ==
  ASSUME NEW r \in Row
  PROVE  /\ Stamp(r) \in Row /\ Stamp(r).revision = r.revision + 1
         /\ Stamp(r).status = r.status /\ Stamp(r).parent = r.parent
         /\ Stamp(r).order = r.order /\ Stamp(r).deletedOp = r.deletedOp
BY DEF Stamp, Row

\* What every operation does to the completions: a row is kept or stamped, the rows that are
\* stamped count as changed, and the items of earlier completions stay.
LEMMA CompletionsKept ==
  ASSUME IInv, NEW S \in SUBSET Exists, Exists \subseteq Exists',
         \A t \in Exists \ S : row'[t] = row[t],
         \A t \in S : row'[t].revision = row[t].revision + 1,
         NEW op \in DOMAIN completion, changed'[op] = Touched(S)[op], asWas'[op] = asWas[op],
         completion'[op].items = completion[op].items
  PROVE  ItemsExact(op)' /\ FenceHolds(op)' /\ changed'[op] \subseteq Task
<1> USE DEF IInv
<1>1. \A item \in completion[op].items :
        /\ item.task \in Exists /\ item.task \in DOMAIN asWas[op]
        /\ item.revision <= row[item.task].revision
        /\ item.revision \in Nat /\ row[item.task].revision \in Nat
  BY DEF TypeOK, ItemsAreExact, ItemsExact, Completion, Item, Row
<1>2. \A item \in completion[op].items :
        IF item.task \in S THEN row'[item.task].revision > item.revision
        ELSE row'[item.task] = row[item.task]
  BY <1>1
<1>3. ItemsExact(op)'
  <2>1. \A item \in completion[op].items : item.revision <= row'[item.task].revision
    BY <1>1
  <2> QED
    BY <2>1 DEF ItemsAreExact, ItemsExact
<1>4. changed'[op] = changed[op] \cup (S \cap DOMAIN asWas[op])
  BY DEF Touched
<1>5. FenceHolds(op)'
  <2> SUFFICES ASSUME NEW item \in completion[op].items, row'[item.task].revision = item.revision
               PROVE  item.task \notin changed'[op] /\ row'[item.task].status = "completed"
    BY DEF FenceHolds
  <2>1. item.task \notin S /\ row'[item.task] = row[item.task]
    BY <1>1, <1>2
  <2> QED
    BY <1>4, <2>1 DEF FenceMeansUntouched
<1>6. changed'[op] \subseteq Task
  BY <1>4 DEF TypeOK
<1> QED
  BY <1>3, <1>5, <1>6

\* The same when no completion is added.
LEMMA AllCompletionsKept ==
  ASSUME IInv, NEW S \in SUBSET Exists, Exists \subseteq Exists',
         \A t \in Exists \ S : row'[t] = row[t],
         \A t \in S : row'[t].revision = row[t].revision + 1,
         changed' = Touched(S), UNCHANGED asWas, DOMAIN completion' = DOMAIN completion,
         \A op \in DOMAIN completion : completion'[op].items = completion[op].items
  PROVE  ItemsAreExact' /\ FenceMeansUntouched' /\ changed' \in [DOMAIN completion' -> SUBSET Task]
<1>1. \A op \in DOMAIN completion : ItemsExact(op)' /\ FenceHolds(op)' /\ changed'[op] \subseteq Task
  BY CompletionsKept
<1>2. changed' = [op \in DOMAIN completion |-> changed'[op]]
  BY DEF Touched
<1> QED
  BY <1>1, <1>2 DEF ItemsAreExact, FenceMeansUntouched, FenceHolds

\* Write, with new rows that keep their revisions until they are stamped.
LEMMA WrittenRows ==
  ASSUME IInv, NEW S \in SUBSET Exists, NEW new \in [S -> Row], Write(new),
         \A t \in S : new[t].parent \in Exists \cup {None}
  PROVE  /\ Exists' = Exists /\ row' \in [Exists -> Row]
         /\ \A t \in Exists : row'[t].parent \in Exists \cup {None}
         /\ \A t \in Exists \ S : row'[t] = row[t]
         /\ \A t \in S :
              /\ row'[t].revision = new[t].revision + 1
              /\ row'[t].status = new[t].status /\ row'[t].parent = new[t].parent
              /\ row'[t].order = new[t].order /\ row'[t].deletedOp = new[t].deletedOp
         /\ changed' = Touched(S)
<1>1. DOMAIN new = S
  OBVIOUS
<1>2. /\ row' = [t \in Exists |-> IF t \in S THEN Stamp(new[t]) ELSE row[t]]
      /\ changed' = Touched(S)
  BY <1>1 DEF Write
<1>3. \A t \in S : row'[t] = Stamp(new[t])
  BY <1>2
<1>4. \A t \in S :
        /\ row'[t] \in Row /\ row'[t].revision = new[t].revision + 1
        /\ row'[t].status = new[t].status /\ row'[t].parent = new[t].parent
        /\ row'[t].order = new[t].order /\ row'[t].deletedOp = new[t].deletedOp
  BY <1>3, Stamped
<1>5. \A t \in Exists \ S : row'[t] = row[t] /\ row'[t] \in Row
  BY <1>2 DEF IInv, TypeOK
<1>6. Exists' = Exists
  BY <1>2 DEF Exists
<1>7. row' \in [Exists -> Row]
  BY <1>2, <1>4, <1>5
<1> QED
  BY <1>2, <1>4, <1>5, <1>6, <1>7 DEF IInv, TypeOK

\* Such a write, when no task is completed or given back.
LEMMA WriteStep ==
  ASSUME IInv, NEW S \in SUBSET Exists, NEW new \in [S -> Row], Write(new),
         \A t \in S : new[t].parent \in Exists \cup {None} /\ new[t].revision = row[t].revision,
         UNCHANGED <<completion, asWas>>, Structure'
  PROVE  IInv'
<1>1. /\ Exists' = Exists /\ row' \in [Exists -> Row]
      /\ \A t \in Exists : row'[t].parent \in Exists \cup {None}
      /\ \A t \in Exists \ S : row'[t] = row[t]
      /\ \A t \in S : row'[t].revision = new[t].revision + 1
      /\ changed' = Touched(S)
  BY WrittenRows
<1>2. ItemsAreExact' /\ FenceMeansUntouched' /\ changed' \in [DOMAIN completion' -> SUBSET Task]
  BY <1>1, AllCompletionsKept
<1>3. TypeOK'
  BY <1>1, <1>2 DEF IInv, TypeOK
<1> QED
  BY <1>2, <1>3 DEF IInv

-----------------------------------------------------------------------------
(* Creating, editing, arranging                                            *)

\* Statuses are no part of the structure.
LEMMA SameStructure ==
  ASSUME IInv, Exists' = Exists,
         \A t \in Exists : /\ row'[t].parent = row[t].parent /\ row'[t].order = row[t].order
                           /\ row'[t].deletedOp = row[t].deletedOp
  PROVE  Structure'
<1> USE DEF IInv, Structure
<1>1. \A t \in Exists : row[t].parent \in Exists \cup {None}
  BY DEF TypeOK
<1>2. Live' = Live
  BY DEF Live
<1>3. DepthOne'
  BY <1>1 DEF DepthOne, Top
<1>4. LiveBelowLive'
  BY <1>2 DEF LiveBelowLive, Live, Top
<1>5. PositionsDiffer'
  BY DEF PositionsDiffer
<1>6. DeletedTogether'
  <2>1. \A t \in Exists : row[t].parent # None =>
          row'[row'[t].parent].deletedOp = row[row[t].parent].deletedOp
    BY <1>1
  <2> QED
    BY <2>1 DEF DeletedTogether
<1> QED
  BY <1>3, <1>4, <1>5, <1>6

LEMMA StatusStep ==
  ASSUME IInv, NEW t \in Live, NEW s \in Status, UNCHANGED <<completion, asWas>>,
         Write([u \in {t} |-> [row[u] EXCEPT !.status = s]])
  PROVE  IInv'
<1> DEFINE new == [u \in {t} |-> [row[u] EXCEPT !.status = s]]
<1>1. t \in Exists /\ row[t] \in Row /\ row[t].parent \in Exists \cup {None}
  BY DEF IInv, TypeOK, Live
<1>2. /\ new \in [{t} -> Row] /\ new[t].parent = row[t].parent /\ new[t].order = row[t].order
      /\ new[t].deletedOp = row[t].deletedOp /\ new[t].revision = row[t].revision
  BY <1>1 DEF Row
<1>3. {t} \in SUBSET Exists /\ Write(new)
  BY <1>1
<1> HIDE DEF new
<1>4. Structure'
  BY <1>1, <1>2, <1>3, WrittenRows, SameStructure
<1> QED
  BY <1>1, <1>2, <1>3, <1>4, WriteStep

LEMMA PatchStep ==
  ASSUME IInv, NEW t \in Task, NEW s \in Status, Patch(t, s)
  PROVE  IInv'
BY StatusStep DEF Patch

LEMMA ReopenStep ==
  ASSUME IInv, NEW t \in Task, Reopen(t)
  PROVE  IInv'
BY StatusStep, StatusAssumption DEF Reopen, Status

\* A task moves to the end of its new siblings.
LEMMA MoveStep ==
  ASSUME IInv, NEW t \in Task, NEW p \in Live \cup {None}, Move(t, p)
  PROVE  IInv'
<1> DEFINE o == NextOrder(p)
           new == [u \in {t} |-> [row[u] EXCEPT !.parent = p, !.order = o]]
<1>1. /\ t \in Live /\ Write(new) /\ UNCHANGED <<completion, asWas>>
      /\ p # None => p \in Live /\ Top(p) /\ p # t /\ Children(t) = {}
  BY DEF Move, MayMove
<1>2. t \in Exists /\ row[t] \in Row /\ p \in Task \cup {None} /\ p \in Exists \cup {None}
  BY <1>1 DEF IInv, TypeOK, Live
<1>3. o \in Nat /\ \A c \in Children(p) : row[c].order < o
  BY NextOrderIsLast DEF IInv
<1> HIDE DEF o
<1>4. /\ new \in [{t} -> Row] /\ new[t].parent = p /\ new[t].order = o
      /\ new[t].deletedOp = row[t].deletedOp /\ new[t].revision = row[t].revision
  BY <1>2, <1>3 DEF Row
<1>5. {t} \in SUBSET Exists
  BY <1>2
<1> HIDE DEF new
<1>6. /\ Exists' = Exists
      /\ \A u \in Exists \ {t} : row'[u] = row[u]
      /\ row'[t].parent = p /\ row'[t].order = o /\ row'[t].deletedOp = None
  BY <1>1, <1>2, <1>4, <1>5, WrittenRows DEF Live
<1>7. Live' = Live
  BY <1>1, <1>6 DEF Live
<1>8. Structure'
  <2> USE DEF IInv, Structure
  <2>1. \A u \in Exists : row[u].parent \in Exists \cup {None}
    BY DEF TypeOK
  <2>2. DepthOne'
    <3>1. \A u \in Exists \ {t} : row[u].parent = t => p = None
      BY <1>1 DEF Children
    <3> QED
      BY <1>1, <1>2, <1>6, <2>1, <3>1, IdAssumption DEF DepthOne, Top, TypeOK
  <2>3. LiveBelowLive'
    BY <1>1, <1>6, <1>7, <2>1 DEF LiveBelowLive, Live, Top
  <2>4. PositionsDiffer'
    <3>1. \A u \in Exists \ {t} : row[u].parent = p => row[u].order # o
      BY <1>3 DEF Children, TypeOK, Row
    <3> QED
      BY <1>6, <3>1 DEF PositionsDiffer
  <2>5. DeletedTogether'
    <3>1. \A u \in Exists : row'[u].deletedOp = row[u].deletedOp
      BY <1>1, <1>6 DEF Live
    <3>2. \A u \in Exists : row[u].deletedOp # None => u # t /\ row'[u] = row[u]
      BY <1>1, <1>6 DEF Live
    <3> QED
      BY <1>6, <2>1, <3>1, <3>2 DEF DeletedTogether
  <2> QED
    BY <2>2, <2>3, <2>4, <2>5
<1> QED
  BY <1>1, <1>2, <1>4, <1>5, <1>8, WriteStep

LEMMA OrdersDiffer ==
  ASSUME TypeOK, NEW S \in SUBSET Exists, NEW f \in Orders(S)
  PROVE  f \in [S -> Nat] /\ \A c, d \in S : f[c] = f[d] => c = d
<1>1. Cardinality(S) \in Nat
  BY ChildrenFinite
<1> QED
  BY <1>1 DEF Orders

\* The live children of a parent change places among themselves.
LEMMA ReorderStep ==
  ASSUME IInv, NEW p \in Task, Reorder(p)
  PROVE  IInv'
<1> DEFINE S == LiveChildren(p)
<1>1. PICK f \in Orders(S) : Write([u \in S |-> [row[u] EXCEPT !.order = f[u]]])
  BY DEF Reorder
<1> DEFINE new == [u \in S |-> [row[u] EXCEPT !.order = f[u]]]
<1>2. S \subseteq Exists /\ row \in [Exists -> Row] /\ UNCHANGED <<completion, asWas>>
  BY DEF LiveChildren, Children, IInv, TypeOK, Reorder
<1>3. f \in [S -> Nat] /\ \A c, d \in S : f[c] = f[d] => c = d
  BY <1>2, OrdersDiffer DEF IInv
<1>4. \A u \in Exists : u \in S <=> row[u].parent = p /\ row[u].deletedOp = None
  BY DEF LiveChildren, Children, Live
<1> HIDE DEF S
<1>5. \A u \in S : /\ new[u] \in Row /\ new[u].parent = row[u].parent /\ new[u].order = f[u]
                   /\ new[u].deletedOp = row[u].deletedOp /\ new[u].revision = row[u].revision
  <2> SUFFICES ASSUME NEW u \in S
               PROVE  /\ new[u] \in Row /\ new[u].parent = row[u].parent /\ new[u].order = f[u]
                      /\ new[u].deletedOp = row[u].deletedOp /\ new[u].revision = row[u].revision
    OBVIOUS
  <2>1. PICK r \in Row : r = row[u]
    BY <1>2
  <2>2. new[u] = [r EXCEPT !.order = f[u]] /\ f[u] \in Nat
    BY <1>3, <2>1
  <2> HIDE DEF new
  <2> QED
    BY <2>1, <2>2 DEF Row
<1>6. new \in [S -> Row] /\ Write(new)
  BY <1>1, <1>5
<1> HIDE DEF new
<1>10. \A u \in S : new[u].parent \in Exists \cup {None}
  BY <1>2, <1>5 DEF IInv, TypeOK
<1>7. /\ Exists' = Exists
      /\ \A u \in Exists \ S : row'[u] = row[u]
      /\ \A u \in S : /\ row'[u].parent = row[u].parent /\ row'[u].order = f[u]
                      /\ row'[u].deletedOp = row[u].deletedOp
  <2>1. S \in SUBSET Exists
    BY <1>2
  <2>2. /\ Exists' = Exists
        /\ \A u \in Exists \ S : row'[u] = row[u]
        /\ \A u \in S : /\ row'[u].parent = new[u].parent /\ row'[u].order = new[u].order
                        /\ row'[u].deletedOp = new[u].deletedOp
    BY <1>6, <1>10, <2>1, WrittenRows
  <2> QED
    BY <1>5, <2>2
<1>8. \A u \in Exists : row'[u].parent = row[u].parent /\ row'[u].deletedOp = row[u].deletedOp
  BY <1>7
<1>9. Structure'
  <2> USE DEF IInv, Structure
  <2>1. \A u \in Exists : row[u].parent \in Exists \cup {None}
    BY DEF TypeOK
  <2>2. Live' = Live
    BY <1>7, <1>8 DEF Live
  <2>3. DepthOne'
    BY <1>7, <1>8, <2>1 DEF DepthOne, Top
  <2>4. LiveBelowLive'
    BY <1>8, <2>2 DEF LiveBelowLive, Live, Top
  <2>5. PositionsDiffer'
    BY <1>3, <1>4, <1>7, <1>8 DEF PositionsDiffer
  <2>6. DeletedTogether'
    <3>1. \A u \in Exists : row[u].parent # None =>
            row'[row'[u].parent].deletedOp = row[row[u].parent].deletedOp
      BY <1>8, <2>1
    <3> QED
      BY <1>7, <1>8, <3>1 DEF DeletedTogether
  <2> QED
    BY <2>3, <2>4, <2>5, <2>6
<1> QED
  BY <1>2, <1>5, <1>6, <1>9, <1>10, WriteStep

\* A new task comes last among its siblings and has no children.
LEMMA NewTask ==
  ASSUME IInv, NEW t \in Task \ Exists
  PROVE  Children(t) = {} /\ \A u \in Exists : row[u].parent # t
BY IdAssumption DEF IInv, TypeOK, Children

LEMMA CreateStep ==
  ASSUME IInv, NEW t \in Task, NEW p \in Live \cup {None}, NEW s \in OpenStatus, Create(t, p, s)
  PROVE  IInv'
<1> DEFINE o == NextOrder(p)
           new == [status |-> s, parent |-> p, order |-> o, revision |-> 1, deletedOp |-> None]
<1>1. /\ t \in Task \ Exists
      /\ p # None => p \in Live /\ Top(p)
      /\ row' = [u \in Exists \cup {t} |-> IF u # t THEN row[u] ELSE new]
      /\ UNCHANGED <<completion, asWas, changed>>
  BY DEF Create
<1>20. Exists \subseteq Task /\ row \in [Exists -> Row]
  BY DEF IInv, TypeOK
<1>2. p \in Exists \cup {None} /\ p # t
  <2>1. p \in Exists \cup {None}
    BY DEF Live
  <2> QED
    BY <1>1, <2>1, IdAssumption
<1>3. o \in Nat /\ \A c \in Children(p) : row[c].order < o
  BY NextOrderIsLast DEF IInv
<1> HIDE DEF o
<1>4. /\ new \in Row /\ new.parent = p /\ new.order = o /\ new.deletedOp = None
  BY <1>2, <1>20, <1>3 DEF Row, Status
<1> HIDE DEF new
<1>5. /\ Exists' = Exists \cup {t} /\ row'[t] = new
      /\ \A u \in Exists : u # t /\ row'[u] = row[u]
  <2>1. Exists' = Exists \cup {t}
    BY <1>1 DEF Exists
  <2>2. row'[t] = new
    BY <1>1
  <2>3. \A u \in Exists : u # t /\ row'[u] = row[u]
    BY <1>1
  <2> QED
    BY <2>1, <2>2, <2>3
<1>6. row' \in [Exists' -> Row]
  BY <1>1, <1>20, <1>4, <1>5
<1>7. \A u \in Exists : row[u].parent \in Exists \cup {None} /\ row[u].parent # t
  <2>1. \A u \in Exists : row[u].parent # t
    BY <1>1, NewTask
  <2> QED
    BY <2>1 DEF IInv, TypeOK
<1>8. Structure'
  <2> USE DEF IInv, Structure
  <2>1. Live' = Live \cup {t}
    BY <1>4, <1>5 DEF Live
  <2>2. DepthOne'
    BY <1>1, <1>2, <1>4, <1>5, <1>7 DEF DepthOne, Top
  <2>3. LiveBelowLive'
    BY <1>1, <1>2, <1>4, <1>5, <1>7, <2>1 DEF LiveBelowLive, Top, Live
  <2>4. PositionsDiffer'
    <3>1. \A u \in Exists : row[u].parent = p => row[u].order # o
      BY <1>20, <1>3 DEF Children, Row
    <3> QED
      BY <1>4, <1>5, <3>1 DEF PositionsDiffer
  <2>5. DeletedTogether'
    BY <1>4, <1>5, <1>7 DEF DeletedTogether
  <2> QED
    BY <2>2, <2>3, <2>4, <2>5
<1>9. changed' = Touched({})
  <2>1. changed = [op \in DOMAIN completion |-> changed[op]]
    BY DEF IInv, TypeOK
  <2> QED
    BY <1>1, <2>1 DEF Touched
<1>10. ItemsAreExact' /\ FenceMeansUntouched' /\ changed' \in [DOMAIN completion' -> SUBSET Task]
  BY <1>1, <1>5, <1>9, AllCompletionsKept
<1>11. TypeOK'
  BY <1>1, <1>2, <1>20, <1>4, <1>5, <1>6, <1>7, <1>10 DEF IInv, TypeOK
<1> QED
  BY <1>8, <1>10, <1>11 DEF IInv

\* Top-level tasks without children become the subtasks of a new one.
LEMMA GroupStep ==
  ASSUME IInv, NEW t \in Task, NEW S \in SUBSET Live, Group(t, S)
  PROVE  IInv'
<1> DEFINE o == NextOrder(None)
           head == [status |-> "inbox", parent |-> None, order |-> o, revision |-> 1,
                    deletedOp |-> None]
<1>1. PICK f \in Orders(S) :
        row' = [u \in Exists \cup {t} |->
          IF u = t THEN head
          ELSE IF u \in S THEN Stamp([row[u] EXCEPT !.parent = t, !.order = f[u]])
          ELSE row[u]]
  BY DEF Group
<1>2. /\ t \in Task \ Exists
      /\ \A c \in S : Top(c) /\ Children(c) = {}
      /\ changed' = Touched(S) /\ UNCHANGED <<completion, asWas>>
  BY DEF Group
<1>3. /\ Exists \subseteq Task /\ row \in [Exists -> Row]
      /\ \A u \in Exists : row[u].parent \in Exists \cup {None}
  BY DEF IInv, TypeOK
<1>4. S \in SUBSET Exists /\ t \notin S /\ t # None
      /\ \A u \in S : row[u].parent = None /\ row[u].deletedOp = None
  BY <1>2, IdAssumption DEF Live, Top
<1>5. f \in [S -> Nat] /\ \A c, d \in S : f[c] = f[d] => c = d
  BY <1>4, OrdersDiffer DEF IInv
<1>6. o \in Nat /\ \A c \in Children(None) : row[c].order < o
  BY NextOrderIsLast DEF IInv
<1> HIDE DEF o
<1>7. head \in Row /\ head.parent = None /\ head.order = o /\ head.deletedOp = None
  BY <1>6, StatusAssumption DEF Row, Status
<1> HIDE DEF head
<1>8. Exists' = Exists \cup {t} /\ row'[t] = head
  BY <1>1 DEF Exists
<1>9. \A u \in Exists \ S : u # t /\ row'[u] = row[u]
  BY <1>1, <1>2
<1>10. \A u \in S : /\ row'[u] \in Row /\ row'[u].revision = row[u].revision + 1
                    /\ row'[u].parent = t /\ row'[u].order = f[u] /\ row'[u].deletedOp = None
  <2> SUFFICES ASSUME NEW u \in S
               PROVE  /\ row'[u] \in Row /\ row'[u].revision = row[u].revision + 1
                      /\ row'[u].parent = t /\ row'[u].order = f[u]
                      /\ row'[u].deletedOp = None
    OBVIOUS
  <2>1. PICK r \in Row : r = row[u]
    BY <1>3, <1>4
  <2> DEFINE n == [r EXCEPT !.parent = t, !.order = f[u]]
  <2>2. row'[u] = Stamp(n)
    BY <1>1, <1>4, <2>1
  <2>3. /\ n \in Row /\ n.parent = t /\ n.order = f[u] /\ n.deletedOp = r.deletedOp
        /\ n.revision = r.revision
    BY <1>5, <2>1 DEF Row
  <2> HIDE DEF n
  <2> QED
    BY <1>4, <2>1, <2>2, <2>3, Stamped
<1>11. \A u \in Exists : row[u].parent \notin S /\ row[u].parent # t
  BY <1>2, <1>3, <1>4 DEF Children
<1>12. Structure'
  <2> USE DEF IInv, Structure
  <2>1. Live' = Live \cup {t}
    BY <1>4, <1>7, <1>8, <1>9, <1>10 DEF Live
  <2>2. DepthOne'
    BY <1>2, <1>3, <1>4, <1>7, <1>8, <1>9, <1>10, <1>11 DEF DepthOne, Top
  <2>3. LiveBelowLive'
    BY <1>3, <1>7, <1>8, <1>9, <1>10, <2>1 DEF LiveBelowLive, Top, Live
  <2>4. PositionsDiffer'
    <3>1. \A u \in Exists : row[u].parent = None => row[u].order # o
      BY <1>3, <1>6 DEF Children, Row
    <3> QED
      BY <1>4, <1>5, <1>7, <1>8, <1>9, <1>10, <1>11, <3>1 DEF PositionsDiffer
  <2>5. DeletedTogether'
    <3>1. \A u \in Exists' : row'[u].deletedOp # None =>
            /\ u \in Exists /\ row'[u] = row[u]
            /\ row[u].parent # None => row'[row[u].parent] = row[row[u].parent]
      BY <1>3, <1>7, <1>8, <1>9, <1>10, <1>11
    <3> QED
      BY <3>1 DEF DeletedTogether
  <2> QED
    BY <2>2, <2>3, <2>4, <2>5
<1>13. row' \in [Exists' -> Row]
  BY <1>1, <1>3, <1>7, <1>8, <1>9, <1>10
<1>14. ItemsAreExact' /\ FenceMeansUntouched' /\ changed' \in [DOMAIN completion' -> SUBSET Task]
  BY <1>2, <1>4, <1>8, <1>9, <1>10, AllCompletionsKept
<1>15. \A u \in Exists' : row'[u].parent \in Exists' \cup {None}
  BY <1>3, <1>7, <1>8, <1>9, <1>10
<1>16. TypeOK'
  BY <1>2, <1>3, <1>8, <1>13, <1>14, <1>15 DEF IInv, TypeOK
<1> QED
  BY <1>12, <1>14, <1>16 DEF IInv

-----------------------------------------------------------------------------
(* Completion and its undoing                                              *)

\* The new completion's items are the statuses it found and the revisions it wrote.
LEMMA CompleteStep ==
  ASSUME IInv, NEW t \in Task, NEW op \in Op, Complete(t, op)
  PROVE  IInv'
<1> DEFINE done == {c \in LiveChildren(t) : Open(c)} \cup {t}
           items == {ItemOf(u) : u \in done}
<1>1. /\ t \in Live /\ op \notin DOMAIN completion
      /\ row' = [u \in Exists |->
           IF u \in done THEN Stamp([row[u] EXCEPT !.status = "completed"]) ELSE row[u]]
      /\ completion' = [o \in (DOMAIN completion) \cup {op} |->
           IF o # op THEN completion[o]
           ELSE [root |-> t, undone |-> FALSE, items |-> items]]
      /\ changed' = [o \in (DOMAIN completion) \cup {op} |->
           IF o # op THEN Touched(done)[o] ELSE {}]
      /\ asWas' = [o \in (DOMAIN completion) \cup {op} |->
           IF o # op THEN asWas[o] ELSE [u \in done |-> row[u].status]]
  BY DEF Complete, Fresh
<1>2. /\ Exists \subseteq Task /\ row \in [Exists -> Row]
      /\ completion \in [DOMAIN completion -> Completion]
  BY DEF IInv, TypeOK
<1>3. done \in SUBSET Exists
  BY <1>1 DEF LiveChildren, Children, Live
<1> HIDE DEF done
<1>4. Exists' = Exists /\ \A u \in Exists \ done : row'[u] = row[u]
  BY <1>1 DEF Exists
<1>5. \A u \in done :
        /\ row'[u] \in Row /\ row'[u].revision = row[u].revision + 1
        /\ row'[u].status = "completed" /\ row'[u].parent = row[u].parent
        /\ row'[u].order = row[u].order /\ row'[u].deletedOp = row[u].deletedOp
  <2> SUFFICES ASSUME NEW u \in done
               PROVE  /\ row'[u] \in Row /\ row'[u].revision = row[u].revision + 1
                      /\ row'[u].status = "completed" /\ row'[u].parent = row[u].parent
                      /\ row'[u].order = row[u].order /\ row'[u].deletedOp = row[u].deletedOp
    OBVIOUS
  <2>1. PICK r \in Row : r = row[u]
    BY <1>2, <1>3
  <2> DEFINE n == [r EXCEPT !.status = "completed"]
  <2>2. row'[u] = Stamp(n)
    BY <1>1, <1>3, <2>1
  <2>3. /\ n \in Row /\ n.status = "completed" /\ n.parent = r.parent /\ n.order = r.order
        /\ n.deletedOp = r.deletedOp /\ n.revision = r.revision
    BY <2>1 DEF Row, Status
  <2> HIDE DEF n
  <2> QED
    BY <2>1, <2>2, <2>3, Stamped
<1>6. row' \in [Exists -> Row]
  BY <1>1, <1>2, <1>4, <1>5
<1>7. \A u \in Exists : /\ row'[u].parent = row[u].parent /\ row'[u].order = row[u].order
                        /\ row'[u].deletedOp = row[u].deletedOp
  BY <1>4, <1>5
<1>8. Structure'
  BY <1>4, <1>7, SameStructure
<1>9. /\ DOMAIN completion' = (DOMAIN completion) \cup {op}
      /\ completion'[op] = [root |-> t, undone |-> FALSE, items |-> items]
      /\ changed'[op] = {} /\ asWas'[op] = [u \in done |-> row[u].status]
      /\ DOMAIN asWas' = DOMAIN completion'
      /\ DOMAIN changed' = DOMAIN completion'
  BY <1>1
<1>10. \A o \in DOMAIN completion :
         /\ o # op /\ completion'[o] = completion[o] /\ asWas'[o] = asWas[o]
         /\ changed'[o] = Touched(done)[o]
  BY <1>1
<1>11. \A o \in DOMAIN completion : ItemsExact(o)' /\ FenceHolds(o)' /\ changed'[o] \subseteq Task
  BY <1>3, <1>4, <1>5, <1>10, CompletionsKept
<1>12. \A u \in done : ItemOf(u) \in Item /\ ItemOf(u).task = u
         /\ ItemOf(u).previous = row[u].status /\ ItemOf(u).revision = row'[u].revision
  BY <1>2, <1>3, <1>5 DEF ItemOf, Item, Row
<1>13. \A item \in items : /\ item \in Item /\ item.task \in done
                           /\ item.previous = row[item.task].status
                           /\ item.revision = row'[item.task].revision
  BY <1>12
<1>14. {item.task : item \in items} = done
  BY <1>12, <1>13
<1> HIDE DEF items
<1>15. completion'[op].items = items /\ completion'[op] \in Completion
  BY <1>2, <1>9, <1>13 DEF Completion
<1>16. ItemsExact(op)'
  <2>1. \A item \in items : item.revision <= row'[item.task].revision
    BY <1>3, <1>5, <1>13 DEF Row
  <2>2. \A item \in items : item.previous = asWas'[op][item.task]
    BY <1>9, <1>13
  <2>3. DOMAIN asWas'[op] = {item.task : item \in items}
    BY <1>9, <1>14
  <2> QED
    BY <1>15, <2>1, <2>2, <2>3 DEF ItemsExact
<1>17. FenceHolds(op)'
  BY <1>5, <1>9, <1>13, <1>15 DEF FenceHolds
<1>18. ItemsAreExact' /\ FenceMeansUntouched'
  BY <1>9, <1>11, <1>16, <1>17 DEF ItemsAreExact, FenceMeansUntouched, FenceHolds
<1>19. TypeOK'
  <2>1. changed' \in [DOMAIN completion' -> SUBSET Task]
    BY <1>1, <1>9, <1>11
  <2>2. completion' \in [DOMAIN completion' -> Completion]
    BY <1>1, <1>2, <1>9, <1>10, <1>15
  <2>3. \A o \in DOMAIN completion' : \A item \in completion'[o].items : item.task \in Exists'
    BY <1>3, <1>4, <1>9, <1>10, <1>13, <1>15 DEF IInv, TypeOK
  <2>4. DOMAIN completion' \subseteq Op /\ DOMAIN asWas' = DOMAIN completion'
    BY <1>9 DEF IInv, TypeOK
  <2>5. \A u \in Exists' : row'[u].parent \in Exists' \cup {None}
    BY <1>4, <1>7 DEF IInv, TypeOK
  <2> QED
    BY <1>2, <1>4, <1>6, <2>1, <2>2, <2>3, <2>4, <2>5 DEF TypeOK
<1> QED
  BY <1>8, <1>18, <1>19 DEF IInv

\* Undo writes the items' rows and nothing else of the completions.
LEMMA UndoneRows ==
  ASSUME IInv, NEW op \in Op, UndoComplete(op)
  PROVE  LET S == {item.task : item \in completion[op].items} IN
         /\ op \in DOMAIN completion /\ S \in SUBSET Exists /\ S = DOMAIN asWas[op]
         /\ Exists' = Exists /\ row' \in [Exists -> Row]
         /\ \A u \in Exists \ S : row'[u] = row[u]
         /\ \A u \in S :
              /\ row'[u].revision = row[u].revision + 1 /\ row'[u].status = asWas[op][u]
              /\ u \notin changed[op]
         /\ \A u \in Exists : /\ row'[u].parent = row[u].parent /\ row'[u].order = row[u].order
                              /\ row'[u].deletedOp = row[u].deletedOp
         /\ changed' = Touched(S)
<1> DEFINE items == completion[op].items
           S == {item.task : item \in items}
           previous(u) == (CHOOSE item \in items : item.task = u).previous
           new == [u \in S |-> [row[u] EXCEPT !.status = previous(u)]]
<1>1. op \in DOMAIN completion /\ Undoable(op) /\ Write(new)
  BY DEF UndoComplete
<1>2. /\ items \subseteq Item /\ \A item \in items : item.task \in Exists
      /\ row \in [Exists -> Row]
  BY <1>1 DEF IInv, TypeOK, Completion
<1>3. S = DOMAIN asWas[op] /\ \A item \in items : item.previous = asWas[op][item.task]
  BY <1>1 DEF IInv, ItemsAreExact, ItemsExact
<1>4. \A item \in items : item.task \notin changed[op]
  BY <1>1 DEF IInv, FenceMeansUntouched, Undoable
<1> HIDE DEF items
<1>5. S \in SUBSET Exists /\ \A u \in S : u \notin changed[op]
  BY <1>2, <1>4
<1>6. \A u \in S : previous(u) \in Status /\ previous(u) = asWas[op][u]
  <2> SUFFICES ASSUME NEW u \in S PROVE previous(u) \in Status /\ previous(u) = asWas[op][u]
    OBVIOUS
  <2> DEFINE i == CHOOSE item \in items : item.task = u
  <2>1. i \in items /\ i.task = u
    OBVIOUS
  <2> HIDE DEF i
  <2>2. i.previous \in Status /\ i.previous = asWas[op][u]
    BY <1>2, <1>3, <2>1 DEF Item
  <2> QED
    BY <2>2 DEF i
<1> HIDE DEF S, previous
<1>7. \A u \in S :
        /\ new[u] \in Row /\ new[u].status = asWas[op][u] /\ new[u].parent = row[u].parent
        /\ new[u].order = row[u].order /\ new[u].deletedOp = row[u].deletedOp
        /\ new[u].revision = row[u].revision
  <2> SUFFICES ASSUME NEW u \in S
               PROVE  /\ new[u] \in Row /\ new[u].status = asWas[op][u]
                      /\ new[u].parent = row[u].parent
                      /\ new[u].order = row[u].order /\ new[u].deletedOp = row[u].deletedOp
                      /\ new[u].revision = row[u].revision
    OBVIOUS
  <2>1. PICK r \in Row : r = row[u]
    BY <1>2, <1>5
  <2>2. new[u] = [r EXCEPT !.status = previous(u)] /\ previous(u) \in Status
    BY <1>6, <2>1
  <2> HIDE DEF new
  <2> QED
    BY <1>6, <2>1, <2>2 DEF Row
<1>8. new \in [S -> Row] /\ Write(new)
  BY <1>1, <1>7
<1> HIDE DEF new
<1>9. \A u \in S : new[u].parent \in Exists \cup {None}
  BY <1>5, <1>7 DEF IInv, TypeOK
<1>10. /\ Exists' = Exists /\ row' \in [Exists -> Row]
       /\ \A u \in Exists \ S : row'[u] = row[u]
       /\ \A u \in S :
            /\ row'[u].revision = new[u].revision + 1
            /\ row'[u].status = new[u].status /\ row'[u].parent = new[u].parent
            /\ row'[u].order = new[u].order /\ row'[u].deletedOp = new[u].deletedOp
       /\ changed' = Touched(S)
  BY <1>5, <1>8, <1>9, WrittenRows
<1>11. /\ \A u \in S :
            /\ row'[u].revision = row[u].revision + 1 /\ row'[u].status = asWas[op][u]
            /\ u \notin changed[op]
       /\ \A u \in Exists : /\ row'[u].parent = row[u].parent /\ row'[u].order = row[u].order
                            /\ row'[u].deletedOp = row[u].deletedOp
  BY <1>5, <1>7, <1>10
<1>12. S = {item.task : item \in completion[op].items}
  BY DEF S, items
<1> QED
  BY <1>1, <1>3, <1>5, <1>10, <1>11, <1>12

LEMMA UndoCompleteStep ==
  ASSUME IInv, NEW op \in Op, UndoComplete(op)
  PROVE  IInv'
<1> DEFINE S == {item.task : item \in completion[op].items}
<1>1. /\ op \in DOMAIN completion /\ S \in SUBSET Exists
      /\ Exists' = Exists /\ row' \in [Exists -> Row]
      /\ \A u \in Exists \ S : row'[u] = row[u]
      /\ \A u \in S : row'[u].revision = row[u].revision + 1
      /\ \A u \in Exists : /\ row'[u].parent = row[u].parent /\ row'[u].order = row[u].order
                           /\ row'[u].deletedOp = row[u].deletedOp
      /\ changed' = Touched(S)
  BY UndoneRows
<1> HIDE DEF S
<1>2. completion' = [completion EXCEPT ![op].undone = TRUE] /\ UNCHANGED asWas
  BY DEF UndoComplete
<1>3. completion \in [DOMAIN completion -> Completion]
  BY DEF IInv, TypeOK
<1>4. /\ DOMAIN completion' = DOMAIN completion
      /\ \A o \in DOMAIN completion :
           completion'[o] \in Completion /\ completion'[o].items = completion[o].items
  <2>1. PICK c \in Completion : c = completion[op]
    BY <1>1, <1>3
  <2> DEFINE d == [c EXCEPT !.undone = TRUE]
  <2>2. d \in Completion /\ d.items = c.items
    BY <2>1 DEF Completion
  <2>3. completion' = [completion EXCEPT ![op] = d]
    BY <1>2, <2>1
  <2> HIDE DEF d
  <2> QED
    BY <1>1, <1>3, <2>1, <2>2, <2>3
<1>5. Structure'
  BY <1>1, SameStructure
<1>6. ItemsAreExact' /\ FenceMeansUntouched' /\ changed' \in [DOMAIN completion' -> SUBSET Task]
  BY <1>1, <1>2, <1>4, AllCompletionsKept
<1>7. completion' \in [DOMAIN completion' -> Completion]
  BY <1>2, <1>4
<1>8. TypeOK'
  BY <1>1, <1>2, <1>4, <1>6, <1>7 DEF IInv, TypeOK
<1> QED
  BY <1>5, <1>6, <1>8 DEF IInv

-----------------------------------------------------------------------------
(* Trash                                                                   *)

\* One write under one new operation id.
LEMMA RemoveStep ==
  ASSUME IInv, NEW t \in Task, NEW op \in Op, Remove(t, op)
  PROVE  IInv'
<1> DEFINE S == Removed(t)
           new == [u \in S |-> [row[u] EXCEPT !.deletedOp = op]]
<1>1. /\ t \in Live /\ Write(new) /\ UNCHANGED <<completion, asWas>>
      /\ \A u \in Exists : row[u].deletedOp # op
  BY DEF Remove, Fresh
<1>2. /\ row \in [Exists -> Row] /\ op # None
      /\ \A u \in Exists : row[u].parent \in Exists \cup {None}
  BY IdAssumption DEF IInv, TypeOK
<1>3. /\ S \in SUBSET Exists /\ t \in S
      /\ \A u \in Exists : u \in S <=> row[u].deletedOp = None /\ (u = t \/ row[u].parent = t)
  BY <1>1 DEF Removed, LiveChildren, Children, Live
<1> HIDE DEF S
<1>4. \A u \in S : /\ new[u] \in Row /\ new[u].parent = row[u].parent
                   /\ new[u].order = row[u].order /\ new[u].deletedOp = op
                   /\ new[u].revision = row[u].revision
  <2> SUFFICES ASSUME NEW u \in S
               PROVE  /\ new[u] \in Row /\ new[u].parent = row[u].parent
                      /\ new[u].order = row[u].order /\ new[u].deletedOp = op
                      /\ new[u].revision = row[u].revision
    OBVIOUS
  <2>1. PICK r \in Row : r = row[u]
    BY <1>2, <1>3
  <2>2. new[u] = [r EXCEPT !.deletedOp = op]
    BY <2>1
  <2> HIDE DEF new
  <2> QED
    BY <2>1, <2>2 DEF Row
<1>5. new \in [S -> Row] /\ Write(new)
  BY <1>1, <1>4
<1> HIDE DEF new
<1>6. \A u \in S : new[u].parent \in Exists \cup {None} /\ new[u].revision = row[u].revision
  BY <1>2, <1>3, <1>4
<1>7. /\ Exists' = Exists
      /\ \A u \in Exists \ S : row'[u] = row[u]
      /\ \A u \in S : row'[u].deletedOp = op
      /\ \A u \in Exists : row'[u].parent = row[u].parent /\ row'[u].order = row[u].order
  <2>1. /\ Exists' = Exists
        /\ \A u \in Exists \ S : row'[u] = row[u]
        /\ \A u \in S : /\ row'[u].parent = new[u].parent /\ row'[u].order = new[u].order
                        /\ row'[u].deletedOp = new[u].deletedOp
    BY <1>3, <1>5, <1>6, WrittenRows
  <2> QED
    BY <1>4, <2>1
<1>8. Structure'
  <2> USE DEF IInv, Structure
  <2>1. Live' = Live \ S
    BY <1>2, <1>3, <1>7 DEF Live
  <2>2. DepthOne'
    BY <1>2, <1>7 DEF DepthOne, Top
  <2>3. LiveBelowLive'
    <3>1. \A u \in Live \ S : row[u].parent # None =>
            row[u].parent \in Live /\ row[u].parent # t /\ row[row[u].parent].parent = None
      BY <1>3 DEF LiveBelowLive, DepthOne, Top, Live
    <3>2. \A u \in Live \ S : row[u].parent # None => row[u].parent \in Live \ S
      BY <1>1, <1>3, <3>1, IdAssumption DEF Live, TypeOK
    <3> QED
      BY <1>7, <2>1, <3>2 DEF LiveBelowLive, Top, Live
  <2>4. PositionsDiffer'
    BY <1>1, <1>3, <1>7 DEF PositionsDiffer
  <2>5. DeletedTogether'
    <3>1. \A u \in Exists \ S : row[u].deletedOp # None /\ row[u].parent # None
            /\ row[row[u].parent].deletedOp = row[u].deletedOp
            => row'[row[u].parent].deletedOp = row[u].deletedOp
      BY <1>2, <1>3, <1>7
    <3>2. \A u, v \in S : u # v =>
            \/ row[u].parent = v \/ row[v].parent = u
            \/ row[u].parent = t /\ row[v].parent = t
      BY <1>3
    <3>3. t # None /\ row'[t].deletedOp = op
      BY <1>3, <1>7, IdAssumption
    <3> SUFFICES ASSUME NEW u \in Exists, NEW v \in Exists, row'[u].deletedOp # None,
                        row'[v].deletedOp = row'[u].deletedOp, u # v
                 PROVE  \/ row[u].parent = v \/ row[v].parent = u
                        \/ row[u].parent # None /\ row[v].parent = row[u].parent
                           /\ row'[row[u].parent].deletedOp = row'[u].deletedOp
      BY <1>7 DEF DeletedTogether
    <3>4. CASE u \in S
      <4>1. v \in S
        BY <1>1, <1>7, <3>4
      <4> QED
        BY <1>7, <3>2, <3>3, <3>4, <4>1
    <3>5. CASE u \notin S
      <4>1. v \notin S
        BY <1>1, <1>7, <3>5
      <4> QED
        BY <1>7, <3>1, <3>5, <4>1 DEF DeletedTogether
    <3> QED
      BY <3>4, <3>5
  <2> QED
    BY <2>2, <2>3, <2>4, <2>5
<1> QED
  BY <1>1, <1>3, <1>5, <1>6, <1>8, WriteStep

\* What one operation deleted is the task it can restore and the subtasks that return with it.
LEMMA RestoredTogether ==
  ASSUME IInv, NEW t, NEW op, Restorable(t, op)
  PROVE  {u \in Exists : row[u].deletedOp = op} = {t} \cup Returning(t, op)
<1>1. t \in Exists /\ op # None /\ row[t].deletedOp = op
  BY DEF Restorable
<1>2. None \notin Exists
  BY IdAssumption DEF IInv, TypeOK
<1>3. row[t].parent # None => row[t].parent \in Exists /\ row[row[t].parent].deletedOp = None
  BY DEF Restorable, Top, Live
<1>4. \A u \in Exists : row[u].deletedOp = op /\ u # t => row[u].parent = t
  BY <1>1, <1>2, <1>3 DEF IInv, Structure, DeletedTogether
<1> QED
  BY <1>1, <1>4 DEF Returning, Children

\* Returning subtasks keep their order: where the orders differ, so do the ranks.
LEMMA RanksDiffer ==
  ASSUME TypeOK, NEW B \in SUBSET Exists, NEW c \in B, NEW d \in B, row[c].order < row[d].order
  PROVE  Cardinality({b \in B : row[b].order < row[c].order})
           < Cardinality({b \in B : row[b].order < row[d].order})
<1> DEFINE C == {b \in B : row[b].order < row[c].order}
           D == {b \in B : row[b].order < row[d].order}
<1>1. \A b \in B : row[b].order \in Nat
  BY DEF TypeOK, Row
<1>2. C \in SUBSET D /\ c \in D /\ c \notin C /\ D \in SUBSET Exists /\ C \in SUBSET Exists
  BY <1>1
<1> HIDE DEF C, D
<1>3. IsFiniteSet(D) /\ Cardinality(C) \in Nat /\ Cardinality(D) \in Nat
  BY <1>2, ChildrenFinite
<1>4. Cardinality(C) <= Cardinality(D) /\ (Cardinality(D) = Cardinality(C) => D = C)
  BY <1>2, <1>3, FS_Subset
<1>5. Cardinality(C) < Cardinality(D)
  BY <1>2, <1>3, <1>4
<1> QED
  BY <1>5 DEF C, D

\* What a restore writes: all that was deleted with the task, last among its siblings, and its
\* subtasks in the order they had.
Restores(S, new, t, op) ==
  /\ S = {u \in Exists : row[u].deletedOp = op} /\ t \in S
  /\ new \in [S -> Row] /\ Write(new)
  /\ \A u \in S : u # t => row[u].parent = t
  /\ \A u \in S : /\ new[u].parent = row[u].parent /\ new[u].deletedOp = None
                  /\ new[u].revision = row[u].revision
  /\ \A c \in Children(row[t].parent) : row[c].order < new[t].order
  /\ \A c, d \in S \ {t} : row[c].order # row[d].order => new[c].order # new[d].order

LEMMA RestoredRows ==
  ASSUME IInv, NEW t \in Task, NEW op \in Op, Restore(t, op)
  PROVE  \E S, new : Restores(S, new, t, op)
<1> DEFINE back == Returning(t, op)
           S == {t} \cup back
           rank(c) == Cardinality({b \in back : row[b].order < row[c].order})
           first == NextOrder(row[t].parent)
           base == NextOrder(t)
           place(u) == IF u = t THEN first ELSE base + rank(u)
           new == [u \in S |-> [row[u] EXCEPT !.deletedOp = None, !.order = place(u)]]
<1>1. Restorable(t, op) /\ Write(new) /\ t \in Exists /\ row[t].deletedOp = op
  BY DEF Restore, Restorable
<1>2. row \in [Exists -> Row]
  BY DEF IInv, TypeOK
<1>3. S = {u \in Exists : row[u].deletedOp = op}
  BY <1>1, RestoredTogether
<1>4. back \in SUBSET Exists /\ \A u \in back : row[u].parent = t
  BY DEF Returning, Children
<1>5. first \in Nat /\ \A c \in Children(row[t].parent) : row[c].order < first
  BY NextOrderIsLast DEF IInv
<1>6. base \in Nat
  BY NextOrderIsLast DEF IInv
<1>7. \A c \in back : rank(c) \in Nat
  <2> SUFFICES ASSUME NEW c \in back PROVE rank(c) \in Nat
    OBVIOUS
  <2>1. {b \in back : row[b].order < row[c].order} \in SUBSET Exists
    BY <1>4
  <2> QED
    BY <2>1, ChildrenFinite DEF IInv
<1>8. \A c, d \in back : row[c].order # row[d].order => rank(c) # rank(d)
  <2> SUFFICES ASSUME NEW c \in back, NEW d \in back, row[c].order # row[d].order
               PROVE  rank(c) # rank(d)
    OBVIOUS
  <2>1. row[c].order \in Nat /\ row[d].order \in Nat
    BY <1>2, <1>4 DEF Row
  <2>2. CASE row[c].order < row[d].order
    <3>1. rank(c) < rank(d)
      BY <1>4, <2>2, RanksDiffer DEF IInv
    <3> QED
      BY <1>7, <3>1
  <2>3. CASE row[d].order < row[c].order
    <3>1. rank(d) < rank(c)
      BY <1>4, <2>3, RanksDiffer DEF IInv
    <3> QED
      BY <1>7, <3>1
  <2> QED
    BY <2>1, <2>2, <2>3
<1> HIDE DEF rank, back
<1>9. t \in S /\ \A u \in S : u # t => u \in back /\ row[u].parent = t
  BY <1>4
<1>10. \A u \in S : place(u) \in Nat
  BY <1>5, <1>6, <1>7, <1>9
<1>11. \A c, d \in S \ {t} : row[c].order # row[d].order => place(c) # place(d)
  BY <1>6, <1>7, <1>8, <1>9
<1>12. place(t) = first
  OBVIOUS
<1> HIDE DEF S, place
<1>13. \A u \in S : /\ new[u] \in Row /\ new[u].parent = row[u].parent
                    /\ new[u].deletedOp = None /\ new[u].revision = row[u].revision
                    /\ new[u].order = place(u)
  <2> SUFFICES ASSUME NEW u \in S
               PROVE  /\ new[u] \in Row /\ new[u].parent = row[u].parent
                      /\ new[u].deletedOp = None /\ new[u].revision = row[u].revision
                      /\ new[u].order = place(u)
    OBVIOUS
  <2>1. PICK r \in Row : r = row[u]
    BY <1>2, <1>3
  <2>2. new[u] = [r EXCEPT !.deletedOp = None, !.order = place(u)] /\ place(u) \in Nat
    BY <1>10, <2>1
  <2> HIDE DEF new
  <2> QED
    BY <2>1, <2>2 DEF Row
<1>14. new \in [S -> Row] /\ Write(new)
  BY <1>1, <1>13
<1> HIDE DEF new, first
<1>15. new[t].order = first
  BY <1>9, <1>12, <1>13
<1>16. S \in SUBSET Exists /\ \A u \in S : u # t => row[u].parent = t
  BY <1>3, <1>9
<1>17. \A c, d \in S \ {t} : row[c].order # row[d].order => new[c].order # new[d].order
  BY <1>11, <1>13
<1>18. Restores(S, new, t, op)
  BY <1>3, <1>5, <1>9, <1>13, <1>14, <1>15, <1>16, <1>17 DEF Restores
<1> QED
  BY <1>18

LEMMA RestoreStep ==
  ASSUME IInv, NEW t \in Task, NEW op \in Op, Restore(t, op)
  PROVE  IInv'
<1>0. PICK S, new : Restores(S, new, t, op)
  BY RestoredRows
<1>1. /\ t \in S /\ \A u \in S : u # t => row[u].parent = t
      /\ \A u \in S : /\ new[u].parent = row[u].parent /\ new[u].deletedOp = None
                      /\ new[u].revision = row[u].revision
      /\ \A c \in Children(row[t].parent) : row[c].order < new[t].order
      /\ \A c, d \in S \ {t} : row[c].order # row[d].order => new[c].order # new[d].order
  BY <1>0 DEF Restores
<1>10. S \in SUBSET Exists /\ new \in [S -> Row] /\ Write(new)
  BY <1>0 DEF Restores
<1>2. /\ row \in [Exists -> Row] /\ op # None /\ None \notin Exists
      /\ \A u \in Exists : row[u].parent \in Exists \cup {None}
      /\ Top(t) \/ row[t].parent \in Live
      /\ UNCHANGED <<completion, asWas>>
  BY IdAssumption DEF IInv, TypeOK, Restore, Restorable
<1>3. \A u \in S : new[u].parent \in Exists \cup {None} /\ new[u].revision = row[u].revision
  BY <1>1, <1>2, <1>10
<1>4. /\ Exists' = Exists
      /\ \A u \in Exists \ S : row'[u] = row[u]
      /\ \A u \in S : row'[u].deletedOp = None /\ row'[u].order = new[u].order
      /\ \A u \in Exists : row'[u].parent = row[u].parent
  <2>1. /\ Exists' = Exists
        /\ \A u \in Exists \ S : row'[u] = row[u]
        /\ \A u \in S : /\ row'[u].parent = new[u].parent /\ row'[u].order = new[u].order
                        /\ row'[u].deletedOp = new[u].deletedOp
    BY <1>3, <1>10, WrittenRows
  <2> QED
    BY <1>1, <2>1
<1>5. S \subseteq Exists /\ \A u \in Exists : row[u].deletedOp = op <=> u \in S
  BY <1>0 DEF Restores
<1>6. row[t].parent # None => row[t].parent \in Exists /\ row[row[t].parent].deletedOp = None
  BY <1>2 DEF Top, Live
<1>7. Structure'
  <2> USE DEF IInv, Structure
  <2>1. Live' = Live \cup S
    BY <1>2, <1>4, <1>5 DEF Live
  <2>2. DepthOne'
    BY <1>2, <1>4 DEF DepthOne, Top
  <2>3. LiveBelowLive'
    <3>1. \A u \in Live : row[u].parent = None \/ row[u].parent \in Live
      BY DEF LiveBelowLive, Top
    <3>2. \A u \in S : row[u].parent = None \/ row[u].parent \in Live \cup S
      BY <1>1, <1>2, <1>6 DEF Live
    <3>3. Live \cup S \subseteq Exists
      BY <1>5 DEF Live
    <3> QED
      BY <1>4, <2>1, <3>1, <3>2, <3>3 DEF LiveBelowLive, Top
  <2>4. PositionsDiffer'
    <3>1. \A u \in Exists : row[u].deletedOp = None /\ row[u].parent = t => FALSE
      BY <1>1, <1>2, <1>5 DEF LiveBelowLive, Top, Live
    <3>2. \A u \in Exists : row[u].parent = row[t].parent => row[u].order < new[t].order
      BY <1>1 DEF Children
    <3>3. row[t].parent # t /\ t # None
      BY <1>1, <1>2, <1>5 DEF DepthOne
    <3>4. \A u \in Exists : row[u].order \in Nat
      BY <1>2 DEF Row
    <3>5. new[t].order \in Nat
      BY <1>1, <1>10 DEF Row
    <3> SUFFICES ASSUME NEW u \in Exists, NEW v \in Exists, row[u].parent = row[v].parent,
                        row'[u].deletedOp = row'[v].deletedOp, row'[u].order = row'[v].order
                 PROVE  u = v
      BY <1>4 DEF PositionsDiffer
    <3>6. CASE u \notin S /\ v \notin S
      BY <1>4, <3>6 DEF PositionsDiffer
    <3>7. CASE u \in S /\ v \notin S
      <4>1. row[v].deletedOp = None /\ row[v].order = new[u].order
        BY <1>4, <3>7
      <4>2. u = t
        BY <1>1, <3>1, <3>7, <4>1
      <4> QED
        BY <3>2, <3>4, <3>5, <4>1, <4>2
    <3>8. CASE u \notin S /\ v \in S
      <4>1. row[u].deletedOp = None /\ row[u].order = new[v].order
        BY <1>4, <3>8
      <4>2. v = t
        BY <1>1, <3>1, <3>8, <4>1
      <4> QED
        BY <3>2, <3>4, <3>5, <4>1, <4>2
    <3>9. CASE u \in S /\ v \in S
      <4>1. CASE u = t \/ v = t
        BY <1>1, <3>3, <3>9, <4>1
      <4>2. CASE u # t /\ v # t
        <5>1. row[u].order = row[v].order
          BY <1>1, <1>4, <3>9, <4>2
        <5> QED
          BY <1>5, <3>9, <5>1 DEF PositionsDiffer
      <4> QED
        BY <4>1, <4>2
    <3> QED
      BY <3>6, <3>7, <3>8, <3>9
  <2>5. DeletedTogether'
    <3>1. \A u \in Exists : row'[u].deletedOp # None => u \notin S /\ row'[u] = row[u]
      BY <1>4
    <3>2. \A u \in Exists \ S : row[u].parent # None
            /\ row[row[u].parent].deletedOp = row[u].deletedOp
            => row'[row[u].parent].deletedOp = row[u].deletedOp
      BY <1>2, <1>4, <1>5
    <3> QED
      BY <1>4, <3>1, <3>2 DEF DeletedTogether
  <2> QED
    BY <2>2, <2>3, <2>4, <2>5
<1> QED
  BY <1>2, <1>3, <1>7, <1>10, WriteStep

-----------------------------------------------------------------------------
(* The invariant                                                           *)

LEMMA StutterStep ==
  ASSUME IInv, UNCHANGED vars
  PROVE  IInv'
<1>1. Structure'
  <2>1. Exists' = Exists /\ row' = row
    BY DEF vars, Exists
  <2> QED
    BY <2>1, SameStructure
<1> QED
  BY <1>1 DEF vars, IInv, TypeOK, Exists, ItemsAreExact, ItemsExact, FenceMeansUntouched

LEMMA NextInv ==
  ASSUME IInv, [Next]_vars
  PROVE  IInv'
<1>1. CASE Next
  <2>1. ASSUME NEW t \in Task, Edit(t) PROVE IInv'
    BY <2>1, CreateStep, PatchStep, ReopenStep, MoveStep, GroupStep, ReorderStep DEF Edit
  <2>2. ASSUME NEW t \in Task, NEW op \in Op, Operate(t, op) PROVE IInv'
    BY <2>2, CompleteStep, RemoveStep, RestoreStep DEF Operate
  <2>3. ASSUME NEW op \in Op, UndoComplete(op) PROVE IInv'
    BY <2>3, UndoCompleteStep
  <2> QED
    BY <1>1, <2>1, <2>2, <2>3 DEF Next
<1>2. CASE UNCHANGED vars
  BY <1>2, StutterStep
<1> QED
  BY <1>1, <1>2

\* What the rest follows from: the strengthened invariant holds in every state.
THEOREM InvariantHolds == Spec => []IInv
<1>1. IInv /\ [Next]_vars => IInv'
  BY NextInv
<1> QED
  BY InitInv, <1>1, PTL DEF Spec

\* TLC's TypeOK of the tasks holds for any number of tasks, operations and writes.
THEOREM TasksTyped == Spec => []TypeOK
<1>1. IInv => TypeOK
  BY DEF IInv
<1> QED
  BY InvariantHolds, <1>1, PTL

\* No task is below a subtask or below itself, in the trash as well (TASKS-I01, I02): moveTask,
\* createTask, groupTasks and restoreTask keep the trigger of the database from refusing.
THEOREM DepthStaysOne == Spec => []DepthOne
<1>1. IInv => DepthOne
  BY DEF IInv, Structure
<1> QED
  BY InvariantHolds, <1>1, PTL

\* No task is live below one in the trash, whatever removeTask and restoreTask did (TASKS-I04).
THEOREM LiveStaysBelowLive == Spec => []LiveBelowLive
<1>1. IInv => LiveBelowLive
  BY DEF IInv, Structure
<1> QED
  BY InvariantHolds, <1>1, PTL

\* Live siblings never share a position, so the exclusion constraint on sort_order never refuses
\* what nextOrder, groupTasks, reorderTasks and restoreTask write (TASKS-I05).
THEOREM PositionsStayUnique == Spec => []PositionsUnique
<1>1. IInv => PositionsUnique
  BY DEF IInv, Structure, PositionsDiffer, PositionsUnique, Live
<1> QED
  BY InvariantHolds, <1>1, PTL

\* undoCompleteTask's comparison of revisions is enough: a row that passes it has not been
\* written since the completion (TASKS-B02).
THEOREM FenceIsSound == Spec => []FenceMeansUntouched
<1>1. IInv => FenceMeansUntouched
  BY DEF IInv
<1> QED
  BY InvariantHolds, <1>1, PTL

-----------------------------------------------------------------------------
(* The two undoings                                                        *)

\* No other action undoes a completion.
LEMMA OnlyUndoUndoes ==
  ASSUME IInv, Next, NEW o \in DOMAIN completion, completion'[o].undone, ~ completion[o].undone
  PROVE  UndoComplete(o) /\ o \in Op
<1>1. o \in Op /\ completion[o] \in Completion
  BY DEF IInv, TypeOK
<1>2. completion'[o] # completion[o]
  OBVIOUS
<1>3. ASSUME NEW t \in Task, Edit(t) PROVE FALSE
  BY <1>2, <1>3 DEF Edit, Create, Patch, Reopen, Move, Group, Reorder
<1>4. ASSUME NEW t \in Task, NEW op \in Op, Operate(t, op) PROVE FALSE
  <2>1. CASE Complete(t, op)
    BY <1>2, <2>1 DEF Complete, Fresh
  <2>2. CASE Remove(t, op) \/ Restore(t, op)
    BY <1>2, <2>2 DEF Remove, Restore
  <2> QED
    BY <1>4, <2>1, <2>2 DEF Operate
<1>5. ASSUME NEW op \in Op, UndoComplete(op), op # o PROVE FALSE
  BY <1>2, <1>5 DEF UndoComplete
<1> QED
  BY <1>1, <1>3, <1>4, <1>5 DEF Next

\* Undoing a completion gives back every status it changed and touches no other row, in whatever
\* states undoCompleteTask accepts.
THEOREM UndoIsAlwaysExact == Spec => UndoIsExact
<1> DEFINE A == \A op \in DOMAIN completion :
                  completion'[op].undone /\ ~ completion[op].undone =>
                    \A t \in Exists :
                      IF t \in DOMAIN asWas[op]
                      THEN row'[t].status = asWas[op][t] /\ t \notin changed[op]
                      ELSE row'[t] = row[t]
<1>1. IInv /\ [Next]_vars => [A]_vars
  <2> SUFFICES ASSUME IInv, Next PROVE A
    OBVIOUS
  <2> SUFFICES ASSUME NEW op \in DOMAIN completion, completion'[op].undone,
                      ~ completion[op].undone, NEW t \in Exists
               PROVE  IF t \in DOMAIN asWas[op]
                      THEN row'[t].status = asWas[op][t] /\ t \notin changed[op]
                      ELSE row'[t] = row[t]
    OBVIOUS
  <2>1. UndoComplete(op) /\ op \in Op
    BY OnlyUndoUndoes
  <2> DEFINE S == {item.task : item \in completion[op].items}
  <2>2. /\ S = DOMAIN asWas[op]
        /\ \A u \in Exists \ S : row'[u] = row[u]
        /\ \A u \in S : row'[u].status = asWas[op][u] /\ u \notin changed[op]
    BY <2>1, UndoneRows
  <2> HIDE DEF S
  <2> QED
    BY <2>2
<1> QED
  BY InvariantHolds, <1>1, PTL DEF Spec, UndoIsExact

LEMMA OthersKept ==
  ASSUME NEW S, NEW new, DOMAIN new = S, Write(new), NEW u \in Exists \ S
  PROVE  row'[u] = row[u]
BY DEF Write

\* No other action takes a row out of the trash: they write live rows only, or statuses.
LEMMA OnlyRestoreRestores ==
  ASSUME IInv, Next, NEW u \in Exists, row[u].deletedOp # None, row'[u].deletedOp = None
  PROVE  \E t \in Task, op \in Op : Restore(t, op)
<1>1. u \notin Live /\ row'[u] # row[u]
  BY DEF Live
<1>2. ASSUME NEW t \in Task, Edit(t) PROVE FALSE
  <2>1. ASSUME NEW s \in OpenStatus, NEW p \in Live \cup {None}, Create(t, p, s) PROVE FALSE
    BY <1>1, <2>1 DEF Create
  <2>2. ASSUME NEW s \in Status, Patch(t, s) PROVE FALSE
    <3> DEFINE new == [v \in {t} |-> [row[v] EXCEPT !.status = s]]
    <3>1. DOMAIN new = {t} /\ Write(new) /\ u \notin {t}
      BY <1>1, <2>2 DEF Patch
    <3> HIDE DEF new
    <3> QED
      BY <1>1, <3>1, OthersKept
  <2>3. CASE Reopen(t)
    <3> DEFINE new == [v \in {t} |-> [row[v] EXCEPT !.status = "next_action"]]
    <3>1. DOMAIN new = {t} /\ Write(new) /\ u \notin {t}
      BY <1>1, <2>3 DEF Reopen
    <3> HIDE DEF new
    <3> QED
      BY <1>1, <3>1, OthersKept
  <2>4. ASSUME NEW p \in Live \cup {None}, Move(t, p) PROVE FALSE
    <3> DEFINE new == [v \in {t} |-> [row[v] EXCEPT !.parent = p, !.order = NextOrder(p)]]
    <3>1. DOMAIN new = {t} /\ Write(new) /\ u \notin {t}
      BY <1>1, <2>4 DEF Move
    <3> HIDE DEF new
    <3> QED
      BY <1>1, <3>1, OthersKept
  <2>5. ASSUME NEW S \in SUBSET Live, Group(t, S) PROVE FALSE
    <3>1. u # t /\ u \notin S
      BY <1>1, <2>5 DEF Group
    <3> QED
      BY <1>1, <2>5, <3>1 DEF Group
  <2>6. CASE Reorder(t)
    <3> DEFINE S == LiveChildren(t)
               new(f) == [v \in S |-> [row[v] EXCEPT !.order = f[v]]]
    <3>1. PICK f \in Orders(S) : Write(new(f))
      BY <2>6 DEF Reorder
    <3>2. DOMAIN new(f) = S /\ u \notin S
      BY <1>1 DEF LiveChildren
    <3> HIDE DEF new, S
    <3> QED
      BY <1>1, <3>1, <3>2, OthersKept
  <2> QED
    BY <1>2, <2>1, <2>2, <2>3, <2>4, <2>5, <2>6 DEF Edit
<1>3. ASSUME NEW t \in Task, NEW op \in Op, Complete(t, op) PROVE FALSE
  <2>1. u \notin {c \in LiveChildren(t) : Open(c)} \cup {t}
    BY <1>1, <1>3 DEF Complete, LiveChildren
  <2> QED
    BY <1>1, <1>3, <2>1 DEF Complete
<1>4. ASSUME NEW t \in Task, NEW op \in Op, Remove(t, op) PROVE FALSE
  <2> DEFINE S == Removed(t)
             new == [v \in S |-> [row[v] EXCEPT !.deletedOp = op]]
  <2>1. DOMAIN new = S /\ Write(new) /\ u \notin S
    BY <1>1, <1>4 DEF Remove, Removed, LiveChildren
  <2> HIDE DEF new, S
  <2> QED
    BY <1>1, <2>1, OthersKept
<1>5. ASSUME NEW op \in Op, UndoComplete(op) PROVE FALSE
  <2>1. \A v \in Exists : row'[v].deletedOp = row[v].deletedOp
    BY <1>5, UndoneRows
  <2> QED
    BY <2>1
<1> QED
  BY <1>2, <1>3, <1>4, <1>5 DEF Next, Operate

\* Restoring brings back all that one deletion took and nothing of another, after whatever else
\* was deleted, moved or restored in between (TASKS-I04).
THEOREM RestoreIsAlwaysExact == Spec => RestoreIsExact
<1> DEFINE Taken(op) == {t \in Exists : row[t].deletedOp = op}
           Back == {t \in Exists : row[t].deletedOp # None /\ row'[t].deletedOp = None}
           A == \A op \in Op : Back \cap Taken(op) # {} => Back = Taken(op)
<1>1. IInv /\ Next => A
  <2> SUFFICES ASSUME IInv, Next, NEW op \in Op, Back \cap Taken(op) # {}
               PROVE  Back = Taken(op)
    OBVIOUS
  <2>1. PICK u \in Exists : u \in Back /\ u \in Taken(op)
    OBVIOUS
  <2>2. \E t \in Task, o \in Op : Restore(t, o)
    BY <2>1, OnlyRestoreRestores
  <2>3. PICK t \in Task, o \in Op : Restore(t, o)
    BY <2>2
  <2>4. PICK S, new : Restores(S, new, t, o)
    BY <2>3, RestoredRows
  <2>5. S = Taken(o) /\ S \in SUBSET Exists /\ new \in [S -> Row] /\ Write(new)
    BY <2>4 DEF Restores
  <2>6. \A v \in S : new[v].parent \in Exists \cup {None} /\ new[v].deletedOp = None
    <3>1. \A v \in S : new[v].parent = row[v].parent /\ new[v].deletedOp = None
      BY <2>4 DEF Restores
    <3> QED
      BY <2>5, <3>1 DEF IInv, TypeOK
  <2>7. /\ \A v \in Exists \ S : row'[v] = row[v]
        /\ \A v \in S : row'[v].deletedOp = None
    <3>1. /\ \A v \in Exists \ S : row'[v] = row[v]
          /\ \A v \in S : row'[v].deletedOp = new[v].deletedOp
      BY <2>5, <2>6, WrittenRows
    <3> QED
      BY <2>6, <3>1
  <2>8. Back = Taken(o)
    BY <2>5, <2>7, IdAssumption
  <2> QED
    BY <2>1, <2>8
<1>2. IInv /\ [Next]_vars => [A]_vars
  BY <1>1
<1> QED
  BY InvariantHolds, <1>2, PTL DEF Spec, RestoreIsExact
=============================================================================
