--------------------------- MODULE JobQueueProofs ---------------------------
(***************************************************************************)
(* What the job queue promises for every set of jobs, kinds, runners and   *)
(* keys and every limit, and that it implements JobPromise.                *)
(*                                                                         *)
(* The steps are sorted before any property is proved: RowSteps says what  *)
(* a step can do to one job's row and attempts, TaskSteps what it can do   *)
(* to the executing attempts.  Each theorem then has a few kinds of steps  *)
(* to look at in place of every action.                                    *)
(***************************************************************************)
EXTENDS JobQueueRefinement, FiniteSetTheorems, TLAPS

USE JobAssumption, KindAssumption, KeyAssumption, LimitAssumption, NullAssumption

-----------------------------------------------------------------------------
(* Rows                                                                    *)

\* The sweep leaves a well-formed row, and touches nothing but its status.
LEMMA SweptRowIsRow ==
  ASSUME NEW row \in Row
  PROVE  /\ SweptRow(row) \in Row
         /\ SweptRow(row) = [row EXCEPT !.status = SweptRow(row).status]
         /\ SweptRow(row).status # row.status =>
              row.status \in Active /\ SweptRow(row).status \in {"cancelled", "failed"}
BY DEF SweptRow, Past, Row, Active, Terminal

\* The table after the sweep is a table.
LEMMA SweptTable ==
  ASSUME TypeOK PROVE SweepQueue \in [Job -> Row]
BY SweptRowIsRow DEF SweepQueue, TypeOK

\* Ageing the timers leaves a well-formed row.
LEMMA AgedRowIsRow ==
  ASSUME NEW row \in Row PROVE AgedRow(row) \in Row
<1>1. \A t \in Int : Aged(t) \in Int
  BY DEF Aged
<1>2. row.deadline # None => Aged(row.deadline) \in Int
  BY <1>1 DEF Row
<1>3. (IF row.status \in Active /\ row.deadline # None THEN Aged(row.deadline) ELSE row.deadline)
        \in Int \cup {None}
  BY <1>2 DEF Row
<1>4. (IF row.status = "running" THEN Aged(row.lease) ELSE row.lease) \in Int
  BY <1>1 DEF Row
<1>5. (IF row.status = "queued" /\ row.wait > 0 THEN row.wait - 1 ELSE row.wait) \in Nat
  BY DEF Row
<1> QED BY <1>3, <1>4, <1>5 DEF AgedRow, Row

\* A row as the producers insert it.
LEMMA NewRowIsRow ==
  ASSUME NEW k \in Kind \cup {None}, NEW key \in Key \cup {None}, NEW max \in 0 .. MaxAttempts,
         NEW d \in Int \cup {None}
  PROVE  NewRow(k, key, max, d) \in Row
<1>1. NoRow \in Row
  BY DEF NoRow, Row
<1> QED BY <1>1 DEF NewRow, Row, Active

\* A column set to a value of its type keeps a row a row.
LEMMA RowColumns ==
  ASSUME NEW row \in Row
  PROVE  /\ \A s \in Active \cup Terminal : [row EXCEPT !.status = s] \in Row
         /\ \A n \in Int : [row EXCEPT !.lease = n] \in Row
         /\ \A n \in Nat : [row EXCEPT !.wait = n] \in Row
         /\ \A n \in 0 .. MaxAttempts : [row EXCEPT !.attempt = n] \in Row
         /\ \A r \in Runner : [row EXCEPT !.owner = r] \in Row
         /\ [row EXCEPT !.cancel = TRUE] \in Row
<1>1. \A s \in Active \cup Terminal : [row EXCEPT !.status = s] \in Row
  BY DEF Row
<1>2. \A n \in Int : [row EXCEPT !.lease = n] \in Row
  BY DEF Row
<1>3. \A n \in Nat : [row EXCEPT !.wait = n] \in Row
  BY DEF Row
<1>4. \A n \in 0 .. MaxAttempts : [row EXCEPT !.attempt = n] \in Row
  BY DEF Row
<1>5. \A r \in Runner : [row EXCEPT !.owner = r] \in Row
  BY DEF Row
<1>6. [row EXCEPT !.cancel = TRUE] \in Row
  BY DEF Row
<1> QED BY <1>1, <1>2, <1>3, <1>4, <1>5, <1>6

LEMMA LeaseColumn == \A row \in Row, n \in Int : [row EXCEPT !.lease = n] \in Row
BY RowColumns

\* The updates the statements make keep a row a row.
LEMMA ColumnUpdates ==
  ASSUME NEW row \in Row
  PROVE  /\ [row EXCEPT !.cancel = TRUE] \in Row
         /\ \A n \in Int : [row EXCEPT !.lease = n] \in Row
         /\ \A s \in Active \cup Terminal : [row EXCEPT !.status = s] \in Row
         /\ \A s \in Active \cup Terminal, n \in Nat :
              [row EXCEPT !.status = s, !.wait = n, !.lease = 0] \in Row
         /\ \A r \in Runner : row.attempt + 1 \in Attempt => ClaimedRow(row, r) \in Row
<1>1. ASSUME NEW s \in Active \cup Terminal, NEW n \in Nat
      PROVE  [row EXCEPT !.status = s, !.wait = n, !.lease = 0] \in Row
  <2>1. [row EXCEPT !.status = s] \in Row
    BY RowColumns
  <2>2. [[row EXCEPT !.status = s] EXCEPT !.wait = n] \in Row
    BY <2>1, RowColumns
  <2> DEFINE r1 == [row EXCEPT !.status = s]
             r2 == [r1 EXCEPT !.wait = n]
             r3 == [r2 EXCEPT !.lease = 0]
  <2>3. r3 \in Row
    <3>1. r2 \in Row
      BY <2>2
    <3>2. \A r \in Row : [r EXCEPT !.lease = 0] \in Row
      BY LeaseColumn
    <3> HIDE DEF r2
    <3> QED BY <3>1, <3>2
  <2>4. r3 = [row EXCEPT !.status = s, !.wait = n, !.lease = 0]
    BY DEF Row
  <2> QED BY <2>3, <2>4
<1>2. ASSUME NEW r \in Runner, row.attempt + 1 \in Attempt PROVE ClaimedRow(row, r) \in Row
  <2>1. row.attempt + 1 \in 0 .. MaxAttempts
    BY <1>2 DEF Attempt
  <2> DEFINE r1 == [row EXCEPT !.status = "running"]
             r2 == [r1 EXCEPT !.attempt = row.attempt + 1]
             r3 == [r2 EXCEPT !.owner = r]
             r4 == [r3 EXCEPT !.lease = Lease]
  <2>2. r1 \in Row
    BY RowColumns DEF Active
  <2>3. r2 \in Row
    BY <2>1, <2>2, RowColumns
  <2>4. r3 \in Row
    <3> HIDE DEF r2
    <3> QED BY <2>3, RowColumns
  <2>5. r4 \in Row
    <3>1. \A x \in Row : [x EXCEPT !.lease = Lease] \in Row
      BY LeaseColumn
    <3> HIDE DEF r3
    <3> QED BY <2>4, <3>1
  <2>6. ClaimedRow(row, r) = r4
    BY DEF ClaimedRow, Row
  <2> QED BY <2>5, <2>6
<1> QED BY <1>1, <1>2, RowColumns

\* A field set to a value of its type keeps a runJob invocation one.
LEMMA TaskFields ==
  ASSUME NEW t \in Task
  PROVE  /\ \A pc \in {"run", "publish", "commit", "fail", "settle"} : [t EXCEPT !.pc = pc] \in Task
         /\ \A b \in BOOLEAN : [t EXCEPT !.aborted = b] \in Task
         /\ \A b \in BOOLEAN : [t EXCEPT !.retry = b] \in Task
         /\ \A b \in BOOLEAN : [t EXCEPT !.cancelSeen = b] \in Task
         /\ \A n \in 0 .. MaxLag : [t EXCEPT !.lag = n] \in Task
         /\ \A r \in Runner \cup {None} : [t EXCEPT !.owner = r] \in Task
<1>1. \A pc \in {"run", "publish", "commit", "fail", "settle"} : [t EXCEPT !.pc = pc] \in Task
  BY DEF Task
<1>2. \A b \in BOOLEAN : [t EXCEPT !.aborted = b] \in Task
  BY DEF Task
<1>3. \A b \in BOOLEAN : [t EXCEPT !.retry = b] \in Task
  BY DEF Task
<1>4. \A b \in BOOLEAN : [t EXCEPT !.cancelSeen = b] \in Task
  BY DEF Task
<1>5. \A n \in 0 .. MaxLag : [t EXCEPT !.lag = n] \in Task
  BY DEF Task
<1>6. \A r \in Runner \cup {None} : [t EXCEPT !.owner = r] \in Task
  BY DEF Task
<1> QED BY <1>1, <1>2, <1>3, <1>4, <1>5, <1>6

LEMMA NoTaskIsTask == NoTask \in Task
BY DEF NoTask, Task

\* The updates of a runJob invocation keep it one.
LEMMA TaskUpdates ==
  ASSUME NEW t \in Task
  PROVE  /\ [t EXCEPT !.aborted = TRUE] \in Task
         /\ [t EXCEPT !.pc = "publish"] \in Task
         /\ [t EXCEPT !.pc = "commit", !.lag = 0] \in Task
         /\ \A b \in BOOLEAN :
              [t EXCEPT !.pc = "fail", !.aborted = FALSE, !.retry = b, !.lag = 0] \in Task
         /\ \A b \in BOOLEAN : [t EXCEPT !.pc = "settle", !.cancelSeen = b, !.lag = 0] \in Task
         /\ [t EXCEPT !.lag = AgedLag(@)] \in Task
         /\ Over(t) \in Task
<1>0. 0 \in 0 .. MaxLag
  OBVIOUS
<1>1. [t EXCEPT !.aborted = TRUE] \in Task /\ [t EXCEPT !.pc = "publish"] \in Task
  BY TaskFields
<1>2. [t EXCEPT !.pc = "commit", !.lag = 0] \in Task
  <2>1. [t EXCEPT !.pc = "commit"] \in Task
    BY TaskFields
  <2> QED BY <1>0, <2>1, TaskFields
<1>3. ASSUME NEW b \in BOOLEAN
      PROVE  [t EXCEPT !.pc = "fail", !.aborted = FALSE, !.retry = b, !.lag = 0] \in Task
  <2>1. [t EXCEPT !.pc = "fail"] \in Task
    BY TaskFields
  <2>2. [[t EXCEPT !.pc = "fail"] EXCEPT !.aborted = FALSE] \in Task
    BY <2>1, TaskFields
  <2>3. [[[t EXCEPT !.pc = "fail"] EXCEPT !.aborted = FALSE] EXCEPT !.retry = b] \in Task
    BY <2>2, TaskFields
  <2> QED BY <1>0, <2>3, TaskFields
<1>4. ASSUME NEW b \in BOOLEAN
      PROVE  [t EXCEPT !.pc = "settle", !.cancelSeen = b, !.lag = 0] \in Task
  <2>1. [t EXCEPT !.pc = "settle"] \in Task
    BY TaskFields
  <2> DEFINE t2 == [t EXCEPT !.pc = "settle", !.cancelSeen = b]
  <2>2. t2 \in Task
    BY <2>1, TaskFields
  <2>3. [t2 EXCEPT !.lag = 0] \in Task
    <3> HIDE DEF t2
    <3> QED BY <1>0, <2>2, TaskFields
  <2> QED BY <2>3
<1>5. [t EXCEPT !.lag = AgedLag(@)] \in Task
  <2>1. AgedLag(t.lag) \in 0 .. MaxLag
    BY DEF Task, AgedLag
  <2> QED BY <2>1, TaskFields
<1>6. Over(t) \in Task
  <2>1. t.owner \in Runner \cup {None}
    BY DEF Task
  <2> QED BY <2>1, NoTaskIsTask, TaskFields DEF Over
<1> QED BY <1>1, <1>2, <1>3, <1>4, <1>5, <1>6

LEMMA NewTaskIsTask ==
  ASSUME NEW r \in Runner PROVE [NoTask EXCEPT !.pc = "run", !.owner = r] \in Task
<1>1. [NoTask EXCEPT !.pc = "run"] \in Task
  BY NoTaskIsTask, TaskFields
<1> QED BY <1>1, TaskFields

LEMMA EntryIsTask ==
  ASSUME TypeOK, NEW j \in Job, NEW a \in Attempt PROVE task[j][a] \in Task
BY DEF TypeOK

\* What is left of a delay that counts from a clock of some age.
LEMMA AgedBackoff ==
  ASSUME TypeOK, NEW j \in Job, NEW a \in Attempt PROVE Later(Backoff - task[j][a].lag) \in Nat
<1>1. task[j][a].lag \in 0 .. MaxLag
  BY EntryIsTask DEF Task
<1>2. Backoff \in Nat /\ MaxLag \in Nat
  BY LimitAssumption
<1>3. Backoff - task[j][a].lag \in Int
  BY <1>1, <1>2
<1> QED
  BY <1>3 DEF Later

\* Replacing one entry of the task table by a task.
LEMMA SetTask ==
  ASSUME TypeOK, NEW j \in Job, NEW a \in Attempt, NEW t \in Task
  PROVE  [task EXCEPT ![j] = [task[j] EXCEPT ![a] = t]] \in [Job -> [Attempt -> Task]]
BY DEF TypeOK

\* Whatever selectCandidate picks may be attempted once more.
LEMMA CandidateHasAttemptLeft ==
  ASSUME TypeOK, NEW k \in Kind, NEW j \in SelectCandidate(SweepQueue, k)
  PROVE  /\ j \in Job /\ SweepQueue[j].attempt + 1 \in Attempt
         /\ SweepQueue[j].status \in Active
BY SweptTable DEF SelectCandidate, Candidates, Row, Attempt, Active

-----------------------------------------------------------------------------
(* Type correctness                                                        *)

LEMMA InitType == Init => TypeOK
BY DEF Init, TypeOK, NoRow, Row, NoTask, Task, Attempt, Active, Terminal

LEMMA InsertType ==
  ASSUME TypeOK, NEW row \in Row, Insert(row) PROVE TypeOK'
BY DEF Insert, TypeOK

LEMMA RequestType == TypeOK /\ Request => TypeOK'
<1> SUFFICES ASSUME TypeOK, Request PROVE TypeOK'
  OBVIOUS
<1>1. ASSUME NEW k \in Kind, NEW key \in Key, EnqueueSystem(k, key) PROVE TypeOK'
  <2>1. NewRow(k, key, MaxAttempts, None) \in Row
    <3>1. MaxAttempts \in 0 .. MaxAttempts /\ None \in Int \cup {None}
      OBVIOUS
    <3> QED BY <3>1, NewRowIsRow
  <2> QED BY <1>1, <2>1, InsertType DEF EnqueueSystem
<1>2. ASSUME NEW k \in Kind, NEW key \in Key, EnqueueAi(k, key) PROVE TypeOK'
  <2>1. NewRow(k, key, AiMaxAttempts, Deadline) \in Row
    BY NewRowIsRow
  <2> QED BY <1>2, <2>1, InsertType DEF EnqueueAi
<1>3. ASSUME NEW j \in Job, RetryAsNew(j) PROVE TypeOK'
  <2>1. NewRow(jobs[j].kind, None, MaxAttempts, None) \in Row
    <3>1. jobs[j].kind \in Kind \cup {None}
      BY DEF TypeOK, Row
    <3>2. MaxAttempts \in 0 .. MaxAttempts /\ None \in Int \cup {None}
      OBVIOUS
    <3> QED BY <3>1, <3>2, NewRowIsRow
  <2> QED BY <1>3, <2>1, InsertType DEF RetryAsNew
<1>4. ASSUME NEW j \in Job, CancelAi(j) PROVE TypeOK'
  <2> DEFINE row == [jobs[j] EXCEPT !.cancel = TRUE]
             s == IF jobs[j].status = "queued" THEN "cancelled" ELSE jobs[j].status
  <2>1. row \in Row /\ s \in Active \cup Terminal
    BY <1>4, ColumnUpdates DEF CancelAi, IsActive, TypeOK, Active, Terminal
  <2>2. jobs' = [jobs EXCEPT ![j] = [row EXCEPT !.status = s]]
    BY <1>4 DEF CancelAi, TypeOK, Row
  <2>3. [row EXCEPT !.status = s] \in Row
    BY <2>1, ColumnUpdates
  <2>4. jobs' \in [Job -> Row]
    BY <2>2, <2>3 DEF TypeOK
  <2> QED BY <1>4, <2>4 DEF CancelAi, TypeOK
<1>5. ASSUME NEW j \in Job, AdminCancel(j) PROVE TypeOK'
  <2>1. jobs' = [jobs EXCEPT ![j] = [jobs[j] EXCEPT !.cancel = TRUE]]
    BY <1>5 DEF AdminCancel
  <2>2. jobs' \in [Job -> Row]
    BY <2>1, ColumnUpdates DEF TypeOK
  <2> QED BY <1>5, <2>2 DEF AdminCancel, TypeOK
<1> QED BY <1>1, <1>2, <1>3, <1>4, <1>5 DEF Request

\* Aborting some of the held controllers keeps the tasks well formed.
LEMMA AbortHeldType ==
  ASSUME TypeOK, NEW r \in Runner, NEW S
  PROVE  AbortHeld(r, S) \in [Job -> [Attempt -> Task]]
BY TaskUpdates DEF AbortHeld, TypeOK

LEMMA PollType == ASSUME NEW r \in Runner PROVE TypeOK /\ Poll(r) => TypeOK'
<1> SUFFICES ASSUME TypeOK, Poll(r) PROVE TypeOK'
  OBVIOUS
<1>1. CASE AbortCancelled(r)
  BY <1>1, AbortHeldType DEF AbortCancelled, TypeOK
<1>2. ASSUME NEW k \in Kind, ClaimNothing(r, k) PROVE TypeOK'
  BY <1>2, SweptTable DEF ClaimNothing, TypeOK
<1>3. ASSUME NEW k \in Kind, Claim(r, k) PROVE TypeOK'
  <2>1. PICK j \in SelectCandidate(SweepQueue, k) : WriteClaim(SweepQueue, j, r)
    BY <1>3 DEF Claim
  <2> DEFINE a == SweepQueue[j].attempt + 1
  <2>2. j \in Job /\ a \in Attempt
    BY CandidateHasAttemptLeft
  <2>3. ClaimedRow(SweepQueue[j], r) \in Row
    BY <2>2, SweptTable, ColumnUpdates
  <2>4. jobs' \in [Job -> Row]
    BY <2>1, <2>3, SweptTable DEF WriteClaim
  <2>5. attempts' \in [Job -> [Attempt -> {"none", "running", "succeeded", "failed", "abandoned"}]]
    BY <2>1, <2>2 DEF WriteClaim, TypeOK
  <2>6. task' \in [Job -> [Attempt -> Task]]
    <3> DEFINE t == [NoTask EXCEPT !.pc = "run", !.owner = r]
    <3>1. t \in Task
      BY NewTaskIsTask
    <3>2. task' = [task EXCEPT ![j] = [task[j] EXCEPT ![a] = t]]
      BY <2>1 DEF WriteClaim
    <3> HIDE DEF t
    <3> QED BY <2>2, <3>1, <3>2, SetTask
  <2>7. active' \in [Runner -> [Job -> Attempt \cup {0}]]
    BY <2>1, <2>2 DEF WriteClaim, TypeOK
  <2>8. revived' \subseteq Job
    BY <2>1 DEF WriteClaim, TypeOK
  <2> QED BY <1>3, <2>4, <2>5, <2>6, <2>7, <2>8 DEF Claim, TypeOK
<1> QED BY <1>1, <1>2, <1>3 DEF Poll, PollKind

LEMMA HeartbeatType ==
  ASSUME NEW j \in Job, NEW a \in Attempt PROVE TypeOK /\ Heartbeat(j, a) => TypeOK'
<1> SUFFICES ASSUME TypeOK, Heartbeat(j, a) PROVE TypeOK'
  OBVIOUS
<1>1. CASE RenewSends(j, a)
  BY <1>1 DEF RenewSends, TypeOK
<1>2. ASSUME Answered(j, a)
      PROVE  /\ renewal' \in [Job -> [Attempt -> 0 .. MaxLag \cup {None}]]
             /\ renewal[j][a] \in 0 .. MaxLag
  BY <1>2 DEF Answered, TypeOK
<1>3. CASE Renew(j, a)
  <2>1. jobs' = [jobs EXCEPT ![j] = [jobs[j] EXCEPT !.lease = Lease - renewal[j][a]]]
    BY <1>3 DEF Renew
  <2>2. Lease - renewal[j][a] \in Int
    BY <1>2, <1>3 DEF Renew
  <2>3. jobs' \in [Job -> Row]
    BY <2>1, <2>2, ColumnUpdates DEF TypeOK
  <2> QED BY <1>2, <1>3, <2>3 DEF Renew, TypeOK
<1>4. ASSUME Answered(j, a), Abort(j, a), faults' \in Nat PROVE TypeOK'
  <2>1. task' = [task EXCEPT ![j] = [task[j] EXCEPT ![a] =
                   [task[j][a] EXCEPT !.aborted = @ \/ task[j][a].pc = "run"]]]
    BY <1>4 DEF Abort
  <2>2. [task[j][a] EXCEPT !.aborted = @ \/ task[j][a].pc = "run"] \in Task
    BY EntryIsTask DEF Task
  <2>3. task' \in [Job -> [Attempt -> Task]]
    BY <2>1, <2>2, SetTask
  <2> QED BY <1>2, <1>4, <2>3 DEF Abort, TypeOK
<1> QED BY <1>1, <1>3, <1>4 DEF Heartbeat, RenewRefused, RenewFails, Fault, TypeOK

\* What the catch block does to the invocation it ends.
LEMMA CatchStep ==
  ASSUME TypeOK, NEW j \in Job, NEW a \in Attempt, Catch(j, a)
  PROVE  \E b \in BOOLEAN :
           task' = [task EXCEPT ![j] = [task[j] EXCEPT ![a] =
                      [task[j][a] EXCEPT !.pc = "fail", !.aborted = FALSE, !.retry = b, !.lag = 0]]]
<1>1. PICK b \in (IF jobs[j].kind \in AiKind THEN BOOLEAN ELSE {TRUE}) :
        task' = [task EXCEPT ![j][a].pc = "fail", ![j][a].aborted = FALSE,
                             ![j][a].retry = b, ![j][a].lag = 0]
  BY DEF Catch
<1>2. b \in BOOLEAN
  OBVIOUS
<1>3. task \in [Job -> [Attempt -> Task]]
  BY DEF TypeOK
<1>4. task' = [task EXCEPT ![j] = [task[j] EXCEPT ![a] =
                 [task[j][a] EXCEPT !.pc = "fail", !.aborted = FALSE, !.retry = b, !.lag = 0]]]
  BY <1>1, <1>3, EntryIsTask DEF Task
<1> QED BY <1>2, <1>4

\* The catch and finally blocks keep the runner's own state well formed.
LEMMA CatchType ==
  ASSUME TypeOK, NEW j \in Job, NEW a \in Attempt, Catch(j, a)
  PROVE  task' \in [Job -> [Attempt -> Task]]
<1>1. PICK b \in BOOLEAN :
        task' = [task EXCEPT ![j] = [task[j] EXCEPT ![a] =
                   [task[j][a] EXCEPT !.pc = "fail", !.aborted = FALSE, !.retry = b, !.lag = 0]]]
  BY CatchStep
<1>2. [task[j][a] EXCEPT !.pc = "fail", !.aborted = FALSE, !.retry = b, !.lag = 0] \in Task
  BY EntryIsTask, TaskUpdates
<1> QED BY <1>1, <1>2, SetTask

LEMMA FinallyType ==
  ASSUME TypeOK, NEW j \in Job, NEW a \in Attempt, Finally(j, a)
  PROVE  /\ task' \in [Job -> [Attempt -> Task]]
         /\ active' \in [Runner -> [Job -> Attempt \cup {0}]]
<1>1. task' = [task EXCEPT ![j] = [task[j] EXCEPT ![a] = Over(task[j][a])]]
  BY DEF Finally
<1>2. Over(task[j][a]) \in Task
  BY EntryIsTask, TaskUpdates
<1>3. task' \in [Job -> [Attempt -> Task]]
  BY <1>1, <1>2, SetTask
<1>4. active' \in [Runner -> [Job -> Attempt \cup {0}]]
  BY DEF Finally, TypeOK
<1> QED BY <1>3, <1>4

LEMMA CommitType ==
  ASSUME TypeOK, NEW j \in Job, NEW a \in Attempt, Commit(j, a)
  PROVE  /\ jobs' \in [Job -> Row]
         /\ attempts' \in [Job -> [Attempt -> {"none", "running", "succeeded", "failed", "abandoned"}]]
         /\ published' \in [Job -> Nat]
<1> DEFINE row == [jobs[j] EXCEPT !.status = "succeeded"]
<1>1. row \in Row /\ [row EXCEPT !.lease = 0] \in Row
  <2>1. row \in Row
    BY ColumnUpdates DEF TypeOK, Terminal
  <2>2. \A x \in Row : [x EXCEPT !.lease = 0] \in Row
    BY LeaseColumn
  <2> HIDE DEF row
  <2> QED BY <2>1, <2>2
<1>2. jobs' = [jobs EXCEPT ![j] = [row EXCEPT !.lease = 0]]
  BY DEF Commit, TypeOK, Row
<1> QED BY <1>1, <1>2 DEF Commit, TypeOK

LEMMA ExecuteType ==
  ASSUME NEW j \in Job, NEW a \in Attempt PROVE TypeOK /\ Execute(j, a) => TypeOK'
<1> SUFFICES ASSUME TypeOK, Execute(j, a) PROVE TypeOK'
  OBVIOUS
<1>1. CASE RunReturns(j, a)
  <2>1. task' = [task EXCEPT ![j] = [task[j] EXCEPT ![a] = [task[j][a] EXCEPT !.pc = "publish"]]]
    BY <1>1 DEF RunReturns
  <2>2. [task[j][a] EXCEPT !.pc = "publish"] \in Task
    BY EntryIsTask, TaskUpdates
  <2>3. task' \in [Job -> [Attempt -> Task]]
    BY <2>1, <2>2, SetTask
  <2> QED BY <1>1, <2>3 DEF RunReturns, TypeOK
<1>2. CASE RunThrows(j, a)
  BY <1>2, CatchType DEF RunThrows, TypeOK
<1>11. CASE PublishSends(j, a)
  <2>1. task' = [task EXCEPT ![j] = [task[j] EXCEPT ![a] =
                   [task[j][a] EXCEPT !.pc = "commit", !.lag = 0]]]
    BY <1>11 DEF PublishSends
  <2>2. [task[j][a] EXCEPT !.pc = "commit", !.lag = 0] \in Task
    BY EntryIsTask, TaskUpdates
  <2>3. task' \in [Job -> [Attempt -> Task]]
    BY <2>1, <2>2, SetTask
  <2> QED BY <1>11, <2>3 DEF PublishSends, TypeOK
<1>3. CASE Publish(j, a)
  BY <1>3, CommitType, FinallyType DEF Publish, TypeOK
<1>4. CASE PublishUnacknowledged(j, a)
  BY <1>4, CommitType, CatchType DEF PublishUnacknowledged, Fault, TypeOK
<1>5. CASE PublishFenced(j, a)
  BY <1>5, CatchType DEF PublishFenced, TypeOK
<1>6. CASE PublishRollsBack(j, a)
  BY <1>6, CatchType DEF PublishRollsBack, Fault, TypeOK
<1>7. CASE FailReads(j, a)
  <2>1. jobs[j].cancel \in BOOLEAN
    BY DEF TypeOK, Row
  <2>2. task' = [task EXCEPT ![j] = [task[j] EXCEPT ![a] =
                   [task[j][a] EXCEPT !.pc = "settle", !.cancelSeen = jobs[j].cancel, !.lag = 0]]]
    BY <1>7 DEF FailReads, TypeOK, Task
  <2>3. [task[j][a] EXCEPT !.pc = "settle", !.cancelSeen = jobs[j].cancel, !.lag = 0] \in Task
    BY <2>1, EntryIsTask, TaskUpdates
  <2>4. task' \in [Job -> [Attempt -> Task]]
    BY <2>2, <2>3, SetTask
  <2> QED BY <1>7, <2>4 DEF FailReads, TypeOK
<1>8. CASE FailFenced(j, a)
  BY <1>8, FinallyType DEF FailFenced, TypeOK
<1>9. CASE FailWrites(j, a)
  <2>1. jobs' \in [Job -> Row]
    <3> DEFINE n == Later(Backoff - task[j][a].lag)
               row == [jobs[j] EXCEPT !.status = FailStatus(j, a), !.wait = n, !.lease = 0]
    <3>1. FailStatus(j, a) \in Active \cup Terminal
      BY DEF FailStatus, Active, Terminal
    <3>4. n \in Nat
      BY AgedBackoff
    <3>2. row \in Row
      <4> HIDE DEF n
      <4> QED BY <3>1, <3>4, ColumnUpdates DEF TypeOK
    <3>3. jobs' = [jobs EXCEPT ![j] = row]
      BY <1>9 DEF FailWrites, TypeOK, Row
    <3> QED BY <3>2, <3>3 DEF TypeOK
  <2>2. attempts' \in [Job -> [Attempt -> {"none", "running", "succeeded", "failed", "abandoned"}]]
    BY <1>9 DEF FailWrites, TypeOK
  <2> QED BY <1>9, <2>1, <2>2, FinallyType DEF FailWrites, TypeOK
<1>10. CASE FailLost(j, a)
  BY <1>10, FinallyType DEF FailLost, Fault, TypeOK
<1> QED
  BY <1>1, <1>2, <1>3, <1>4, <1>5, <1>6, <1>7, <1>8, <1>9, <1>10, <1>11 DEF Execute

LEMMA ProcessType == ASSUME NEW r \in Runner PROVE TypeOK /\ Process(r) => TypeOK'
<1> SUFFICES ASSUME TypeOK, Process(r) PROVE TypeOK'
  OBVIOUS
<1>1. CASE Stop(r)
  BY <1>1, AbortHeldType DEF Stop, Fault, TypeOK
<1>2. ASSUME Vanish(r), faults' \in Nat PROVE TypeOK'
  BY <1>2, TaskUpdates DEF Vanish, TypeOK
<1>3. CASE Restart(r)
  BY <1>3 DEF Restart, TypeOK
<1> QED BY <1>1, <1>2, <1>3 DEF Process, Crash, Exit, Fault, TypeOK

LEMMA StutterType == TypeOK /\ UNCHANGED vars => TypeOK'
BY DEF TypeOK, vars

LEMMA TickType == TypeOK /\ Tick => TypeOK'
<1> SUFFICES ASSUME TypeOK, Tick PROVE TypeOK'
  OBVIOUS
<1>1. jobs' \in [Job -> Row]
  BY AgedRowIsRow DEF Tick, TypeOK
<1>2. task' \in [Job -> [Attempt -> Task]]
  BY TaskUpdates DEF Tick, TypeOK
<1>3. \A n \in 0 .. MaxLag : AgedLag(n) \in 0 .. MaxLag
  BY DEF AgedLag
<1>4. renewal' \in [Job -> [Attempt -> 0 .. MaxLag \cup {None}]]
  BY <1>3 DEF Tick, TypeOK
<1> QED BY <1>1, <1>2, <1>4 DEF Tick, TypeOK

\* Every reachable state is well formed: in particular no claim ever exceeds the attempts a
\* row may use, and the fencing token stays within them.
THEOREM TypeCorrect == Spec => []TypeOK
<1>1. TypeOK /\ [Next]_vars => TypeOK'
  BY RequestType, PollType, HeartbeatType, ExecuteType, ProcessType, StutterType, TickType
  DEF Next
<1> QED BY <1>1, InitType, PTL DEF Spec

-----------------------------------------------------------------------------
(* What a step can do to a job, and the safety properties that follow      *)

\* A step that neither inserts job j nor commits its effect.
Quiet(j) ==
  /\ published'[j] = published[j]
  /\ jobs'[j].key = jobs[j].key
  /\ jobs'[j].status = "succeeded" <=> jobs[j].status = "succeeded"
  /\ jobs'[j].status \in Active => jobs[j].status \in Active
  /\ jobs[j].cancel => jobs'[j].cancel

AllQuiet == \A j \in Job : Quiet(j)

\* Some new job, refused if its key is taken.
Inserts == \E row \in Row : row.status = "queued" /\ Insert(row)

\* A current, uncancelled attempt commits.
Commits == \E j \in Job, a \in Attempt : Publishable(j, a) /\ Commit(j, a)

\* Steps that leave the jobs table and the effects alone are quiet.
LEMMA StillIsQuiet == ASSUME UNCHANGED <<jobs, published>> PROVE AllQuiet
BY DEF AllQuiet, Quiet

\* Steps that rewrite one row are quiet if that row is.
LEMMA OneRowIsQuiet ==
  ASSUME TypeOK, NEW j \in Job, NEW row \in Row, UNCHANGED published,
         jobs' = [jobs EXCEPT ![j] = row], row.key = jobs[j].key,
         row.status = "succeeded" <=> jobs[j].status = "succeeded",
         row.status \in Active => jobs[j].status \in Active,
         jobs[j].cancel => row.cancel
  PROVE  AllQuiet
BY DEF AllQuiet, Quiet, TypeOK

LEMMA SweepIsQuiet ==
  ASSUME TypeOK, NEW j \in Job
  PROVE  /\ SweepQueue[j].key = jobs[j].key /\ SweepQueue[j].cancel = jobs[j].cancel
         /\ SweepQueue[j].status = "succeeded" <=> jobs[j].status = "succeeded"
         /\ SweepQueue[j].status \in Active => jobs[j].status \in Active
BY DEF SweepQueue, SweptRow, Past, TypeOK, Row, Active

LEMMA RequestKinds == TypeOK /\ Request => AllQuiet \/ Inserts
<1> SUFFICES ASSUME TypeOK, Request PROVE AllQuiet \/ Inserts
  OBVIOUS
<1>1. ASSUME NEW k \in Kind \cup {None}, NEW key \in Key \cup {None}, NEW max \in 0 .. MaxAttempts,
             NEW d \in Int \cup {None}, Insert(NewRow(k, key, max, d))
      PROVE  Inserts
  <2>1. NewRow(k, key, max, d) \in Row
    BY NewRowIsRow
  <2>2. NewRow(k, key, max, d).status = "queued"
    BY DEF NewRow, NoRow
  <2> QED BY <1>1, <2>1, <2>2 DEF Inserts
<1>2. MaxAttempts \in 0 .. MaxAttempts /\ AiMaxAttempts \in 0 .. MaxAttempts /\ None \in Int \cup {None}
  OBVIOUS
<1>3. ASSUME NEW k \in Kind, NEW key \in Key, EnqueueSystem(k, key) PROVE Inserts
  BY <1>1, <1>2, <1>3 DEF EnqueueSystem
<1>4. ASSUME NEW k \in Kind, NEW key \in Key, EnqueueAi(k, key) PROVE Inserts
  BY <1>1, <1>2, <1>4 DEF EnqueueAi
<1>5. ASSUME NEW j \in Job, RetryAsNew(j) PROVE Inserts
  <2>1. jobs[j].kind \in Kind \cup {None}
    BY DEF TypeOK, Row
  <2> QED BY <1>1, <1>2, <1>5, <2>1 DEF RetryAsNew
<1>6. ASSUME NEW j \in Job, CancelAi(j) PROVE AllQuiet
  BY <1>6 DEF CancelAi, IsActive, AllQuiet, Quiet, TypeOK, Row, Active
<1>7. ASSUME NEW j \in Job, AdminCancel(j) PROVE AllQuiet
  BY <1>7 DEF AdminCancel, AllQuiet, Quiet, TypeOK, Row, Active
<1> QED BY <1>3, <1>4, <1>5, <1>6, <1>7 DEF Request

LEMMA PollKinds == ASSUME NEW r \in Runner PROVE TypeOK /\ Poll(r) => AllQuiet
<1> SUFFICES ASSUME TypeOK, Poll(r) PROVE AllQuiet
  OBVIOUS
<1>1. CASE AbortCancelled(r)
  BY <1>1, StillIsQuiet DEF AbortCancelled
<1>2. ASSUME NEW k \in Kind, ClaimNothing(r, k) PROVE AllQuiet
  BY <1>2, SweepIsQuiet DEF ClaimNothing, AllQuiet, Quiet
<1>3. ASSUME NEW k \in Kind, Claim(r, k) PROVE AllQuiet
  <2>1. PICK j \in SelectCandidate(SweepQueue, k) : WriteClaim(SweepQueue, j, r)
    BY <1>3 DEF Claim
  <2>2. j \in Job /\ SweepQueue[j].status \in Active
    BY CandidateHasAttemptLeft
  <2>3. SweepQueue[j] \in Row
    BY <2>2, SweptTable
  <2>4. /\ ClaimedRow(SweepQueue[j], r).key = SweepQueue[j].key
        /\ ClaimedRow(SweepQueue[j], r).cancel = SweepQueue[j].cancel
        /\ ClaimedRow(SweepQueue[j], r).status = "running"
    BY <2>3 DEF ClaimedRow, Row
  <2>5. jobs' = [SweepQueue EXCEPT ![j] = ClaimedRow(SweepQueue[j], r)] /\ published' = published
    BY <1>3, <2>1 DEF Claim, WriteClaim
  <2>6. ASSUME NEW i \in Job PROVE Quiet(i)
    <3>1. CASE i = j
      <4>1. jobs'[i] = ClaimedRow(SweepQueue[j], r)
        BY <2>5, <3>1, SweptTable
      <4> QED BY <2>2, <2>4, <2>5, <3>1, <4>1, SweepIsQuiet DEF Quiet, Active
    <3>2. CASE i # j
      <4>1. jobs'[i] = SweepQueue[i]
        BY <2>5, <3>2, SweptTable
      <4> QED BY <2>5, <4>1, SweepIsQuiet DEF Quiet
    <3> QED BY <3>1, <3>2
  <2> QED BY <2>6 DEF AllQuiet
<1> QED BY <1>1, <1>2, <1>3 DEF Poll, PollKind

LEMMA HeartbeatKinds ==
  ASSUME NEW j \in Job, NEW a \in Attempt PROVE TypeOK /\ Heartbeat(j, a) => AllQuiet
<1> SUFFICES ASSUME TypeOK, Heartbeat(j, a) PROVE AllQuiet
  OBVIOUS
<1>1. CASE Renew(j, a)
  BY <1>1 DEF Renew, AllQuiet, Quiet, TypeOK, Row
<1>2. CASE RenewSends(j, a) \/ RenewRefused(j, a) \/ RenewFails(j, a)
  BY <1>2, StillIsQuiet DEF RenewSends, RenewRefused, RenewFails, Abort
<1> QED BY <1>1, <1>2 DEF Heartbeat

LEMMA ExecuteKinds ==
  ASSUME NEW j \in Job, NEW a \in Attempt PROVE TypeOK /\ Execute(j, a) => AllQuiet \/ Commits
<1> SUFFICES ASSUME TypeOK, Execute(j, a) PROVE AllQuiet \/ Commits
  OBVIOUS
<1>1. CASE Publish(j, a) \/ PublishUnacknowledged(j, a)
  BY <1>1 DEF Publish, PublishUnacknowledged, Commits
<1>2. CASE FailWrites(j, a)
  <2> DEFINE n == Later(Backoff - task[j][a].lag)
             row == [jobs[j] EXCEPT !.status = FailStatus(j, a), !.wait = n, !.lease = 0]
  <2>1. FailStatus(j, a) \in Active \cup Terminal /\ FailStatus(j, a) # "succeeded"
    BY DEF FailStatus, Active, Terminal
  <2>6. n \in Nat
    BY AgedBackoff
  <2>2. row \in Row
    <3> HIDE DEF n
    <3> QED BY <2>1, <2>6, ColumnUpdates DEF TypeOK
  <2>3. jobs' = [jobs EXCEPT ![j] = row] /\ UNCHANGED published
    BY <1>2 DEF FailWrites, TypeOK, Row
  <2>4. jobs[j].status = "running"
    BY <1>2 DEF FailWrites, InTime, Fence
  <2>5. row.status = FailStatus(j, a) /\ row.key = jobs[j].key /\ row.cancel = jobs[j].cancel
    BY DEF TypeOK, Row
  <2> QED BY <2>1, <2>2, <2>3, <2>4, <2>5, OneRowIsQuiet DEF Active
<1>3. CASE \/ RunReturns(j, a) \/ RunThrows(j, a) \/ PublishSends(j, a) \/ PublishFenced(j, a)
           \/ PublishRollsBack(j, a) \/ FailReads(j, a) \/ FailFenced(j, a) \/ FailLost(j, a)
  BY <1>3, StillIsQuiet DEF RunReturns, RunThrows, PublishSends, PublishFenced, PublishRollsBack,
     FailReads, FailFenced, FailLost
<1> QED BY <1>1, <1>2, <1>3 DEF Execute

\* Every step of the queue inserts one job, commits one current attempt, or leaves keys,
\* effects and successes as they were.
LEMMA StepKinds == TypeOK /\ [Next]_vars => AllQuiet \/ Inserts \/ Commits
<1> SUFFICES ASSUME TypeOK, [Next]_vars PROVE AllQuiet \/ Inserts \/ Commits
  OBVIOUS
<1>1. ASSUME NEW r \in Runner, Process(r) PROVE AllQuiet
  <2>1. CASE Stop(r)
    BY <2>1, StillIsQuiet DEF Stop
  <2>2. CASE Vanish(r)
    BY <2>2, StillIsQuiet DEF Vanish
  <2>3. CASE Restart(r)
    BY <2>3, StillIsQuiet DEF Restart
  <2> QED BY <1>1, <2>1, <2>2, <2>3 DEF Process, Crash, Exit
<1>2. CASE Tick
  <2>1. \A row \in Row : /\ AgedRow(row).key = row.key /\ AgedRow(row).status = row.status
                         /\ AgedRow(row).cancel = row.cancel
    BY DEF AgedRow, Row
  <2>2. \A j \in Job : jobs[j] \in Row /\ jobs'[j] = AgedRow(jobs[j]) /\ published' = published
    BY <1>2 DEF Tick, TypeOK
  <2> QED BY <2>1, <2>2 DEF AllQuiet, Quiet
<1>3. CASE UNCHANGED vars
  BY <1>3, StillIsQuiet DEF vars
<1> QED
  BY <1>1, <1>2, <1>3, RequestKinds, PollKinds, HeartbeatKinds, ExecuteKinds DEF Next


\* Committing sets the row to succeeded and counts the effect, of this job only.
LEMMA CommitShape ==
  ASSUME TypeOK, NEW j \in Job, NEW a \in Attempt, Commit(j, a)
  PROVE  /\ jobs'[j].status = "succeeded" /\ jobs'[j].key = jobs[j].key
         /\ jobs'[j].cancel = jobs[j].cancel /\ published'[j] = published[j] + 1
         /\ \A i \in Job \ {j} : jobs'[i] = jobs[i] /\ published'[i] = published[i]
BY DEF Commit, TypeOK, Row

\* Inserting leaves every other row alone.
LEMMA InsertShape ==
  ASSUME TypeOK, NEW row \in Row, Insert(row)
  PROVE  /\ published' = published
         /\ \E j \in Job : /\ jobs[j].status = "absent" /\ jobs'[j] = row
                           /\ \A i \in Job \ {j} : jobs'[i] = jobs[i]
BY DEF Insert, TypeOK

\* The effect of a job is in the database once if the row says succeeded and never otherwise:
\* for every number of runners, retries, expiries and faults.
THEOREM EffectOnce == Spec => []EffectExactlyWithSuccess
<1> DEFINE Inv == EffectExactlyWithSuccess
<1>1. Init => Inv
  BY DEF Init, NoRow, EffectExactlyWithSuccess
<1>2. TypeOK /\ Inv /\ [Next]_vars => Inv'
  <2> SUFFICES ASSUME TypeOK, Inv, [Next]_vars, NEW i \in Job
               PROVE  published'[i] = IF jobs'[i].status = "succeeded" THEN 1 ELSE 0
    BY DEF EffectExactlyWithSuccess
  <2>1. published[i] = IF jobs[i].status = "succeeded" THEN 1 ELSE 0
    BY DEF EffectExactlyWithSuccess
  <2>2. CASE AllQuiet
    BY <2>1, <2>2 DEF AllQuiet, Quiet
  <2>3. CASE Inserts
    <3>1. PICK row \in Row : row.status = "queued" /\ Insert(row)
      BY <2>3 DEF Inserts
    <3> QED BY <2>1, <3>1, InsertShape
  <2>4. CASE Commits
    <3>1. PICK j \in Job, a \in Attempt : Publishable(j, a) /\ Commit(j, a)
      BY <2>4 DEF Commits
    <3>2. jobs[j].status = "running"
      BY <3>1 DEF Publishable, InTime, Fence
    <3>3. published[j] = 0 /\ jobs'[j].status = "succeeded" /\ published'[j] = published[j] + 1
      BY <3>1, <3>2, CommitShape DEF EffectExactlyWithSuccess
    <3>4. i # j => jobs'[i] = jobs[i] /\ published'[i] = published[i]
      BY <3>1, CommitShape
    <3> QED BY <2>1, <3>3, <3>4
  <2> QED BY <2>2, <2>3, <2>4, StepKinds
<1> QED BY <1>1, <1>2, TypeCorrect, PTL DEF Spec

\* A deduplication key names at most one job in progress.
THEOREM KeysStayUnique == Spec => []UniqueActiveKey
<1>1. Init => UniqueActiveKey
  BY DEF Init, NoRow, UniqueActiveKey, IsActive, Active
<1>2. TypeOK /\ UniqueActiveKey /\ [Next]_vars => UniqueActiveKey'
  <2> SUFFICES ASSUME TypeOK, UniqueActiveKey, [Next]_vars, NEW h \in Job, NEW i \in Job,
                      jobs'[h].status \in Active, jobs'[i].status \in Active,
                      jobs'[h].key # None, jobs'[h].key = jobs'[i].key
               PROVE  h = i
    BY DEF UniqueActiveKey, IsActive
  <2>1. jobs[h].status \in Active /\ jobs[i].status \in Active
        /\ jobs[h].key # None /\ jobs[h].key = jobs[i].key => h = i
    BY DEF UniqueActiveKey, IsActive
  <2>2. CASE AllQuiet
    BY <2>1, <2>2 DEF AllQuiet, Quiet
  <2>3. CASE Inserts
    <3>1. PICK row \in Row : row.status = "queued" /\ Insert(row)
      BY <2>3 DEF Inserts
    <3>2. PICK j \in Job : /\ jobs[j].status = "absent" /\ jobs'[j] = row
                           /\ \A k \in Job \ {j} : jobs'[k] = jobs[k]
      BY <3>1, InsertShape
    <3>3. row.key # None => ~ \E k \in Job : jobs[k].status \in Active /\ jobs[k].key = row.key
      BY <3>1 DEF Insert, Admitted, IsActive
    <3> QED BY <2>1, <3>2, <3>3
  <2>4. CASE Commits
    <3>1. PICK j \in Job, a \in Attempt : Publishable(j, a) /\ Commit(j, a)
      BY <2>4 DEF Commits
    <3>2. jobs'[j].status \notin Active
      BY <3>1, CommitShape DEF Active
    <3> QED BY <2>1, <3>1, <3>2, CommitShape
  <2> QED BY <2>2, <2>3, <2>4, StepKinds
<1> QED BY <1>1, <1>2, TypeCorrect, PTL DEF Spec

\* No effect is committed once a cancellation was requested.
THEOREM CancellationWins == Spec => CancelledNeverPublishes
<1> DEFINE Kept == \A j \in Job : jobs[j].cancel => published'[j] = published[j]
<1>1. TypeOK /\ [Next]_vars => Kept
  <2> SUFFICES ASSUME TypeOK, [Next]_vars, NEW i \in Job, jobs[i].cancel
               PROVE  published'[i] = published[i]
    OBVIOUS
  <2>1. CASE AllQuiet
    BY <2>1 DEF AllQuiet, Quiet
  <2>2. CASE Inserts
    BY <2>2, InsertShape DEF Inserts
  <2>3. CASE Commits
    <3>1. PICK j \in Job, a \in Attempt : Publishable(j, a) /\ Commit(j, a)
      BY <2>3 DEF Commits
    <3>2. i # j
      BY <3>1 DEF Publishable
    <3> QED BY <3>1, <3>2, CommitShape
  <2> QED BY <2>1, <2>2, <2>3, StepKinds
<1> QED BY <1>1, TypeCorrect, PTL DEF Spec, CancelledNeverPublishes

-----------------------------------------------------------------------------
(* What a step can do to a row and to its attempts                         *)

\* A renewal of job i's current attempt that was sent in time changes its lease.
Renews(i) ==
  /\ jobs[i].lease <= 0 => i \in revived'
  /\ \E a \in Attempt : renewal[i][a] # None /\ Renewable(i, a)

\* Time passes, a lease is renewed, or the sweep ends the job.
Rests(i) ==
  /\ i \in revived => i \in revived'
  /\ attempts'[i] = attempts[i] /\ published'[i] = published[i]
  /\ jobs'[i].kind = jobs[i].kind /\ jobs'[i].key = jobs[i].key
  /\ jobs'[i].attempt = jobs[i].attempt /\ jobs'[i].cancel = jobs[i].cancel
  /\ jobs'[i].maxAttempts = jobs[i].maxAttempts
  /\ jobs'[i].lease = jobs[i].lease \/ (Tick /\ jobs'[i].lease <= jobs[i].lease) \/ Renews(i)
  /\ \/ jobs'[i].status = jobs[i].status
     \/ jobs[i].status = "queued" /\ jobs[i].cancel /\ jobs'[i].status = "cancelled"
     \/ jobs[i].status \in Active /\ Past(jobs[i].deadline) /\ jobs'[i].status = "failed"

OthersRest(j) == \A i \in Job \ {j} : Rests(i)

OthersStay(j) ==
  \A i \in Job \ {j} :
    /\ jobs'[i] = jobs[i] /\ attempts'[i] = attempts[i] /\ published'[i] = published[i]
    /\ i \in revived => i \in revived'

\* Somebody asks to cancel job j.
AsksFor(j) ==
  /\ jobs[j].status # "absent" /\ attempts'[j] = attempts[j] /\ published'[j] = published[j]
  /\ jobs'[j].kind = jobs[j].kind /\ jobs'[j].key = jobs[j].key
  /\ jobs'[j].attempt = jobs[j].attempt /\ jobs'[j].maxAttempts = jobs[j].maxAttempts
  /\ jobs'[j].lease = jobs[j].lease /\ jobs'[j].cancel /\ (j \in revived => j \in revived')
  /\ \/ jobs'[j].status = jobs[j].status
     \/ jobs[j].status = "queued" /\ jobs'[j].status = "cancelled"

\* Job j is inserted.
Appears(j) ==
  /\ jobs[j].status = "absent" /\ jobs'[j].status = "queued" /\ jobs'[j].attempt = 0
  /\ ~ jobs'[j].cancel /\ attempts'[j] = attempts[j] /\ published'[j] = published[j]
  /\ jobs'[j].maxAttempts \in Nat \ {0}
  /\ \/ jobs'[j].kind \in Kind
     \/ \E i \in Job : jobs[i].status # "absent" /\ jobs[i].kind = jobs'[j].kind
  /\ jobs'[j].key # None => ~ \E i \in Job : IsActive(i) /\ jobs[i].key = jobs'[j].key

\* Job j of kind k is claimed.
Begins(j, k) ==
  /\ Admits(k) /\ jobs[j].kind = k /\ j \notin LiveRuns
  /\ jobs[j].status \in Active /\ jobs'[j].status = "running"
  /\ jobs'[j].attempt = jobs[j].attempt + 1 /\ jobs[j].attempt + 1 \in Attempt
  /\ jobs[j].attempt < jobs[j].maxAttempts /\ jobs'[j].maxAttempts = jobs[j].maxAttempts
  /\ jobs'[j].kind = k /\ jobs'[j].key = jobs[j].key /\ jobs'[j].cancel = jobs[j].cancel
  /\ published'[j] = published[j]
  /\ attempts'[j] = [b \in Attempt |->
       IF b = jobs[j].attempt + 1 THEN "running"
       ELSE IF b = jobs[j].attempt /\ jobs[j].status = "running" THEN "abandoned"
       ELSE attempts[j][b]]

\* The current attempt of job j ends in time.
Settles(j, a) ==
  /\ InTime(j, a) /\ Sent(task[j][a])
  /\ jobs'[j].kind = jobs[j].kind /\ jobs'[j].key = jobs[j].key
  /\ jobs'[j].attempt = a /\ jobs'[j].cancel = jobs[j].cancel /\ jobs'[j].lease = 0
  /\ jobs'[j].maxAttempts = jobs[j].maxAttempts
  /\ \/ /\ ~ jobs[j].cancel /\ jobs'[j].status = "succeeded"
        /\ attempts'[j] = [attempts[j] EXCEPT ![a] = "succeeded"]
        /\ published'[j] = published[j] + 1
     \/ /\ jobs'[j].status \in {"queued", "failed", "cancelled"}
        /\ jobs'[j].status = "cancelled" => task[j][a].cancelSeen
        /\ jobs'[j].status = "queued" => a < jobs[j].maxAttempts
        /\ attempts'[j] = [attempts[j] EXCEPT ![a] = "failed"]
        /\ published'[j] = published[j]

AllRest == \A i \in Job : Rests(i)

RowStep ==
  \/ AllRest
  \/ \E j \in Job : OthersStay(j) /\ (AsksFor(j) \/ Appears(j))
  \/ \E j \in Job, k \in Kind : OthersRest(j) /\ Begins(j, k)
  \/ \E j \in Job, a \in Attempt : OthersStay(j) /\ Settles(j, a)

LEMMA StillRests ==
  ASSUME NEW i \in Job, jobs'[i] = jobs[i], attempts'[i] = attempts[i], published'[i] = published[i],
         i \in revived => i \in revived'
  PROVE  Rests(i)
BY DEF Rests

\* What one job sees of a step.
LEMMA OneRowStep ==
  ASSUME RowStep, NEW i \in Job
  PROVE  \/ Rests(i) \/ AsksFor(i) \/ Appears(i)
         \/ \E k \in Kind : Begins(i, k)
         \/ \E a \in Attempt : Settles(i, a)
<1>1. ASSUME NEW j \in Job, OthersStay(j), i # j PROVE Rests(i)
  BY <1>1, StillRests DEF OthersStay
<1> QED BY <1>1 DEF RowStep, AllRest, OthersRest

LEMMA NothingHappens == ASSUME UNCHANGED <<jobs, attempts, published, revived>> PROVE RowStep
BY StillRests DEF RowStep, AllRest

\* A row after the sweep.
LEMMA SweptRests ==
  ASSUME TypeOK, NEW i \in Job
  PROVE  LET row == SweepQueue[i] IN
         /\ row \in Row /\ row.kind = jobs[i].kind /\ row.key = jobs[i].key
         /\ row.attempt = jobs[i].attempt /\ row.cancel = jobs[i].cancel
         /\ row.maxAttempts = jobs[i].maxAttempts
         /\ row.lease = jobs[i].lease /\ row.wait = jobs[i].wait /\ row.deadline = jobs[i].deadline
         /\ row.status \in Active => row.status = jobs[i].status
         /\ \/ row.status = jobs[i].status
            \/ jobs[i].status = "queued" /\ jobs[i].cancel /\ row.status = "cancelled"
            \/ jobs[i].status \in Active /\ Past(jobs[i].deadline) /\ row.status = "failed"
<1>1. PICK old \in Row : old = jobs[i]
  BY DEF TypeOK
<1>2. SweepQueue[i] = SweptRow(old)
  BY <1>1 DEF SweepQueue
<1>3. CASE old.status = "queued" /\ old.cancel
  BY <1>1, <1>2, <1>3 DEF SweptRow, Row, Active, Terminal
<1>4. CASE ~ (old.status = "queued" /\ old.cancel) /\ old.status \in Active /\ Past(old.deadline)
  BY <1>1, <1>2, <1>4 DEF SweptRow, Row, Active, Terminal
<1>5. CASE ~ (old.status = "queued" /\ old.cancel) /\ ~ (old.status \in Active /\ Past(old.deadline))
  BY <1>1, <1>2, <1>5 DEF SweptRow
<1> QED
  BY <1>3, <1>4, <1>5

LEMMA SweepRests ==
  ASSUME TypeOK, NEW i \in Job, jobs'[i] = SweepQueue[i], attempts'[i] = attempts[i],
         published'[i] = published[i], i \in revived => i \in revived'
  PROVE  Rests(i)
BY SweptRests DEF Rests

LEMMA RequestRows == TypeOK /\ Request => RowStep
<1> SUFFICES ASSUME TypeOK, Request PROVE RowStep
  OBVIOUS
<1>1. ASSUME NEW k, NEW key, NEW max, NEW d, Insert(NewRow(k, key, max, d)), max \in Nat \ {0},
             k \in Kind \/ \E i \in Job : jobs[i].status # "absent" /\ jobs[i].kind = k
      PROVE  RowStep
  <2> DEFINE new == NewRow(k, key, max, d)
  <2>1. PICK j \in Job : jobs[j].status = "absent" /\ jobs' = [jobs EXCEPT ![j] = new]
    BY <1>1 DEF Insert
  <2>2. new.status = "queued" /\ new.attempt = 0 /\ ~ new.cancel /\ new.key = key /\ new.kind = k
        /\ new.maxAttempts = max
    BY DEF NewRow, NoRow
  <2>3. jobs'[j] = new /\ \A i \in Job \ {j} : jobs'[i] = jobs[i]
    BY <2>1 DEF TypeOK
  <2>4. UNCHANGED <<attempts, published, revived>>
        /\ (new.key # None => ~ \E i \in Job : IsActive(i) /\ jobs[i].key = new.key)
    BY <1>1, <2>2 DEF Insert, Admitted
  <2> HIDE DEF new
  <2>5. Appears(j)
    BY <1>1, <2>1, <2>2, <2>3, <2>4 DEF Appears
  <2>6. OthersStay(j)
    BY <2>3, <2>4 DEF OthersStay
  <2> QED
    BY <2>5, <2>6 DEF RowStep
<1>2. ASSUME NEW j \in Job, CancelAi(j) \/ AdminCancel(j) PROVE RowStep
  <2>1. PICK row \in Row : row = jobs[j]
    BY DEF TypeOK
  <2>2. row.status # "absent"
    BY <1>2, <2>1 DEF CancelAi, AdminCancel, IsActive, Active
  <2>3. PICK new \in Row :
          /\ jobs' = [jobs EXCEPT ![j] = new] /\ new.kind = row.kind /\ new.key = row.key
          /\ new.attempt = row.attempt /\ new.maxAttempts = row.maxAttempts
          /\ new.lease = row.lease /\ new.cancel
          /\ \/ new.status = row.status
             \/ row.status = "queued" /\ new.status = "cancelled"
    <3>1. CASE AdminCancel(j)
      <4>1. jobs' = [jobs EXCEPT ![j] = [row EXCEPT !.cancel = TRUE]]
        BY <2>1, <3>1 DEF AdminCancel
      <4> DEFINE new == [row EXCEPT !.cancel = TRUE]
      <4>2. /\ new \in Row /\ new.kind = row.kind /\ new.key = row.key
            /\ new.attempt = row.attempt /\ new.maxAttempts = row.maxAttempts
            /\ new.lease = row.lease /\ new.cancel
            /\ new.status = row.status
        BY DEF Row
      <4> QED
        BY <4>1, <4>2
    <3>2. CASE CancelAi(j)
      <4> DEFINE status == IF row.status = "queued" THEN "cancelled" ELSE row.status
                 new == [row EXCEPT !.cancel = TRUE, !.status = status]
      <4>1. jobs' = [jobs EXCEPT ![j] = new]
        BY <2>1, <3>2 DEF CancelAi, TypeOK, Row
      <4>2. status \in {"absent"} \cup Active \cup Terminal
            /\ (status = row.status \/ (row.status = "queued" /\ status = "cancelled"))
        BY DEF Row, Terminal
      <4> HIDE DEF status
      <4>3. /\ new \in Row /\ new.kind = row.kind /\ new.key = row.key
            /\ new.attempt = row.attempt /\ new.maxAttempts = row.maxAttempts
            /\ new.lease = row.lease /\ new.cancel
            /\ new.status = status
        BY <4>2 DEF Row
      <4> QED
        BY <4>1, <4>2, <4>3
    <3> QED
      BY <1>2, <3>1, <3>2
  <2>4. jobs'[j] = new /\ \A i \in Job \ {j} : jobs'[i] = jobs[i]
    BY <2>3 DEF TypeOK
  <2>5. UNCHANGED <<attempts, published, revived>>
    BY <1>2 DEF CancelAi, AdminCancel
  <2>6. AsksFor(j)
    BY <2>1, <2>2, <2>3, <2>4, <2>5 DEF AsksFor
  <2>7. OthersStay(j)
    BY <2>4, <2>5 DEF OthersStay
  <2> QED
    BY <2>6, <2>7 DEF RowStep
<1>3. ASSUME NEW j \in Job, RetryAsNew(j) PROVE RowStep
  BY <1>1, <1>3 DEF RetryAsNew
<1>4. ASSUME NEW k \in Kind, NEW key \in Key, EnqueueSystem(k, key) \/ EnqueueAi(k, key)
      PROVE  RowStep
  BY <1>1, <1>4 DEF EnqueueSystem, EnqueueAi
<1> QED
  BY <1>2, <1>3, <1>4 DEF Request

LEMMA PollRows == ASSUME NEW r \in Runner PROVE TypeOK /\ Poll(r) => RowStep
<1> SUFFICES ASSUME TypeOK, Poll(r) PROVE RowStep
  OBVIOUS
<1>1. CASE AbortCancelled(r)
  BY <1>1, NothingHappens DEF AbortCancelled
<1>2. ASSUME NEW k \in Kind, ClaimNothing(r, k) PROVE RowStep
  <2>1. \A i \in Job : jobs'[i] = SweepQueue[i] /\ attempts'[i] = attempts[i] /\ published'[i] = published[i]
                       /\ revived' = revived
    BY <1>2 DEF ClaimNothing
  <2> QED
    BY <2>1, SweepRests DEF RowStep, AllRest
<1>3. ASSUME NEW k \in Kind, Claim(r, k) PROVE RowStep
  <2>1. PICK j \in SelectCandidate(SweepQueue, k) : WriteClaim(SweepQueue, j, r)
    BY <1>3 DEF Claim
  <2>2. j \in Job /\ SweepQueue[j].attempt + 1 \in Attempt /\ SweepQueue[j].status \in Active
    BY CandidateHasAttemptLeft
  <2>3. PICK q \in Row : q = SweepQueue[j]
    BY <2>2, SweptTable
  <2>4. /\ q.kind = k /\ ~ q.cancel /\ q.attempt < q.maxAttempts
        /\ (q.status = "queued" \/ (q.status = "running" /\ q.lease <= 0))
    BY <2>1, <2>3 DEF SelectCandidate, Candidates
  <2>5. /\ q.status = jobs[j].status /\ q.kind = jobs[j].kind /\ q.key = jobs[j].key
        /\ q.attempt = jobs[j].attempt /\ q.cancel = jobs[j].cancel /\ q.lease = jobs[j].lease
        /\ q.maxAttempts = jobs[j].maxAttempts
    BY <2>2, <2>3, SweptRests
  <2> DEFINE new == ClaimedRow(q, r)
  <2>6. /\ new.status = "running" /\ new.attempt = q.attempt + 1 /\ new.kind = q.kind
        /\ new.key = q.key /\ new.cancel = q.cancel /\ new.maxAttempts = q.maxAttempts
    BY DEF ClaimedRow, Row
  <2>7. jobs' = [SweepQueue EXCEPT ![j] = new] /\ published' = published
    BY <1>3, <2>1, <2>3 DEF Claim, WriteClaim
  <2> HIDE DEF new
  <2>8. jobs'[j] = new /\ \A i \in Job \ {j} : jobs'[i] = SweepQueue[i]
    BY <2>2, <2>7, SweptTable
  <2>9. /\ attempts'[j] = [b \in Attempt |->
             IF b = q.attempt + 1 THEN "running"
             ELSE IF b = q.attempt /\ q.status = "running" THEN "abandoned" ELSE attempts[j][b]]
        /\ \A i \in Job \ {j} : attempts'[i] = attempts[i] /\ (i \in revived => i \in revived')
    BY <2>1, <2>2, <2>3 DEF WriteClaim, TypeOK
  <2>10. Admits(k) /\ j \notin LiveRuns
    <3>1. jobs[j].status = "running" => jobs[j].lease \in Int /\ jobs[j].lease <= 0
      BY <2>2, <2>4, <2>5 DEF TypeOK, Row
    <3> QED BY <1>3, <3>1 DEF Claim, Polls, LiveRuns
  <2>11. Begins(j, k)
    BY <2>2, <2>3, <2>4, <2>5, <2>6, <2>7, <2>8, <2>9, <2>10 DEF Begins
  <2>12. OthersRest(j)
    BY <2>7, <2>8, <2>9, SweepRests DEF OthersRest
  <2> QED
    BY <2>2, <2>11, <2>12 DEF RowStep
<1> QED BY <1>1, <1>2, <1>3 DEF Poll, PollKind

LEMMA HeartbeatRows ==
  ASSUME NEW j \in Job, NEW a \in Attempt PROVE TypeOK /\ Heartbeat(j, a) => RowStep
<1> SUFFICES ASSUME TypeOK, Heartbeat(j, a) PROVE RowStep
  OBVIOUS
<1>1. CASE Renew(j, a)
  <2>1. PICK row \in Row : row = jobs[j]
    BY DEF TypeOK
  <2> DEFINE new == [row EXCEPT !.lease = Lease - renewal[j][a]]
  <2>2. jobs' = [jobs EXCEPT ![j] = new] /\ UNCHANGED <<attempts, published>>
        /\ revived' = IF jobs[j].lease <= 0 THEN revived \cup {j} ELSE revived
    BY <1>1, <2>1 DEF Renew
  <2>3. /\ new.kind = row.kind /\ new.key = row.key /\ new.attempt = row.attempt
        /\ new.cancel = row.cancel /\ new.status = row.status
        /\ new.maxAttempts = row.maxAttempts
    BY DEF Row
  <2> HIDE DEF new
  <2>4. jobs'[j] = new /\ \A i \in Job \ {j} : jobs'[i] = jobs[i]
    BY <2>2 DEF TypeOK
  <2>5. Renews(j)
    BY <1>1, <2>2 DEF Renew, Answered, Renews
  <2>6. Rests(j)
    BY <2>1, <2>2, <2>3, <2>4, <2>5 DEF Rests
  <2> QED
    BY <2>2, <2>4, <2>6, StillRests DEF RowStep, AllRest
<1>2. CASE RenewSends(j, a) \/ RenewRefused(j, a) \/ RenewFails(j, a)
  BY <1>2, NothingHappens DEF RenewSends, RenewRefused, RenewFails, Abort
<1> QED
  BY <1>1, <1>2 DEF Heartbeat

LEMMA ExecuteRows ==
  ASSUME NEW j \in Job, NEW a \in Attempt PROVE TypeOK /\ Execute(j, a) => RowStep
<1> SUFFICES ASSUME TypeOK, Execute(j, a) PROVE RowStep
  OBVIOUS
<1>1. PICK row \in Row : row = jobs[j]
  BY DEF TypeOK
<1>2. ASSUME Publishable(j, a), task[j][a].pc = "commit", Commit(j, a), UNCHANGED revived PROVE RowStep
  <2> DEFINE new == [row EXCEPT !.status = "succeeded", !.lease = 0]
  <2>1. jobs' = [jobs EXCEPT ![j] = new]
    BY <1>1, <1>2 DEF Commit, TypeOK, Row
  <2>2. /\ new.kind = row.kind /\ new.key = row.key /\ new.attempt = row.attempt
        /\ new.cancel = row.cancel /\ new.status = "succeeded" /\ new.lease = 0
        /\ new.maxAttempts = row.maxAttempts
    BY DEF Row
  <2> HIDE DEF new
  <2>3. jobs'[j] = new /\ \A i \in Job \ {j} : jobs'[i] = jobs[i]
    BY <2>1 DEF TypeOK
  <2>4. /\ attempts'[j] = [attempts[j] EXCEPT ![a] = "succeeded"]
        /\ published'[j] = published[j] + 1
        /\ \A i \in Job \ {j} : attempts'[i] = attempts[i] /\ published'[i] = published[i]
    BY <1>2 DEF Commit, TypeOK
  <2>5. InTime(j, a) /\ Sent(task[j][a]) /\ row.attempt = a /\ ~ row.cancel
    BY <1>1, <1>2 DEF Publishable, InTime, Fence, Sent
  <2>6. Settles(j, a)
    BY <1>1, <2>2, <2>3, <2>4, <2>5 DEF Settles
  <2> QED
    BY <1>2, <2>3, <2>4, <2>6 DEF RowStep, OthersStay
<1>3. CASE FailWrites(j, a)
  <2> DEFINE new == [row EXCEPT !.status = FailStatus(j, a),
                                !.wait = Later(Backoff - task[j][a].lag), !.lease = 0]
  <2>1. jobs' = [jobs EXCEPT ![j] = new]
    BY <1>1, <1>3 DEF FailWrites, TypeOK, Row
  <2>2. /\ new.kind = row.kind /\ new.key = row.key /\ new.attempt = row.attempt
        /\ new.cancel = row.cancel /\ new.status = FailStatus(j, a) /\ new.lease = 0
        /\ new.maxAttempts = row.maxAttempts
    BY DEF Row
  <2> HIDE DEF new
  <2>3. jobs'[j] = new /\ \A i \in Job \ {j} : jobs'[i] = jobs[i]
    BY <2>1 DEF TypeOK
  <2>4. /\ attempts'[j] = [attempts[j] EXCEPT ![a] = "failed"] /\ published' = published
        /\ \A i \in Job \ {j} : attempts'[i] = attempts[i]
    BY <1>3 DEF FailWrites, TypeOK
  <2>5. InTime(j, a) /\ Sent(task[j][a]) /\ row.attempt = a
    BY <1>1, <1>3 DEF FailWrites, InTime, Fence, Sent
  <2>6. /\ FailStatus(j, a) \in {"queued", "failed", "cancelled"}
        /\ FailStatus(j, a) = "cancelled" => task[j][a].cancelSeen
        /\ FailStatus(j, a) = "queued" => a < jobs[j].maxAttempts
    BY DEF FailStatus
  <2>7. Settles(j, a)
    BY <1>1, <2>2, <2>3, <2>4, <2>5, <2>6 DEF Settles
  <2> QED
    BY <1>3, <2>3, <2>4, <2>7 DEF RowStep, OthersStay, FailWrites
<1>4. CASE \/ RunReturns(j, a) \/ RunThrows(j, a) \/ PublishSends(j, a) \/ PublishFenced(j, a)
           \/ PublishRollsBack(j, a) \/ FailReads(j, a) \/ FailFenced(j, a) \/ FailLost(j, a)
  BY <1>4, NothingHappens DEF RunReturns, RunThrows, PublishSends, PublishFenced, PublishRollsBack,
     FailReads, FailFenced, FailLost
<1> QED
  BY <1>2, <1>3, <1>4 DEF Execute, Publish, PublishUnacknowledged

\* Every step, seen from the rows and their attempts.
LEMMA RowSteps == TypeOK /\ [Next]_vars => RowStep
<1> SUFFICES ASSUME TypeOK, [Next]_vars PROVE RowStep
  OBVIOUS
<1>1. ASSUME NEW r \in Runner, Process(r) PROVE RowStep
  <2>1. UNCHANGED <<jobs, attempts, published, revived>>
    BY <1>1 DEF Process, Stop, Crash, Exit, Vanish, Restart
  <2> QED
    BY <2>1, NothingHappens
<1>2. CASE Tick
  <2> SUFFICES ASSUME NEW i \in Job PROVE Rests(i)
    BY DEF RowStep, AllRest
  <2>1. PICK row \in Row : row = jobs[i] /\ jobs'[i] = AgedRow(row)
    BY <1>2 DEF Tick, TypeOK
  <2>2. /\ AgedRow(row).key = row.key /\ AgedRow(row).kind = row.kind
        /\ AgedRow(row).status = row.status /\ AgedRow(row).cancel = row.cancel
        /\ AgedRow(row).attempt = row.attempt /\ AgedRow(row).maxAttempts = row.maxAttempts
        /\ AgedRow(row).lease = IF row.status = "running" THEN Aged(row.lease) ELSE row.lease
    BY DEF AgedRow, Row
  <2>3. AgedRow(row).lease <= row.lease
    BY <2>2 DEF Aged, Row
  <2> QED
    BY <1>2, <2>1, <2>2, <2>3 DEF Tick, Rests
<1>3. CASE UNCHANGED vars
  BY <1>3, NothingHappens DEF vars
<1> QED
  BY <1>1, <1>2, <1>3, RequestRows, PollRows, HeartbeatRows, ExecuteRows DEF Next
-----------------------------------------------------------------------------
(* The attempt log, the limits and expired attempts                        *)

\* A row that was never inserted has no history.
Fresh == \A j \in Job : jobs[j].status = "absent" => jobs[j].attempt = 0 /\ ~ jobs[j].cancel

\* Whatever put a claimed job back into the queue closed its attempt.
RequeuedIsClosed ==
  \A j \in Job, a \in Attempt :
    jobs[j].status = "queued" /\ a = jobs[j].attempt => attempts[j][a] = "failed"

LogInv == Fresh /\ RequeuedIsClosed /\ AttemptLogMatchesRow

\* The log of one job.
LogOf(j) ==
  /\ jobs[j].status = "absent" => jobs[j].attempt = 0 /\ ~ jobs[j].cancel
  /\ \A a \in Attempt :
       /\ jobs[j].status = "queued" /\ a = jobs[j].attempt => attempts[j][a] = "failed"
       /\ attempts[j][a] = "none" <=> a > jobs[j].attempt
       /\ attempts[j][a] = "succeeded" <=> jobs[j].status = "succeeded" /\ a = jobs[j].attempt
       /\ a < jobs[j].attempt => attempts[j][a] \in {"failed", "abandoned"}
       /\ jobs[j].status = "running" /\ a = jobs[j].attempt => attempts[j][a] = "running"

LEMMA LogInvIsLogOf == LogInv <=> \A j \in Job : LogOf(j)
BY DEF LogInv, LogOf, Fresh, RequeuedIsClosed, AttemptLogMatchesRow

LEMMA RestKeepsLog == ASSUME TypeOK, NEW i \in Job, LogOf(i), Rests(i) PROVE LogOf(i)'
BY DEF LogOf, Rests, Active

LEMMA LogStep ==
  ASSUME TypeOK, LogInv, RowStep, NEW i \in Job PROVE LogOf(i)'
<1>1. LogOf(i) /\ jobs[i].attempt \in Nat
  <2>1. LogOf(i)
    BY LogInvIsLogOf
  <2>2. jobs[i].attempt \in Nat
    BY DEF TypeOK, Row
  <2> QED BY <2>1, <2>2
<1>2. CASE Rests(i)
  BY <1>1, <1>2, RestKeepsLog
<1>3. CASE AsksFor(i)
  BY <1>1, <1>3 DEF LogOf, AsksFor
<1>4. CASE Appears(i)
  <2>1. \A a \in Attempt : a \in Nat /\ a # 0
    BY DEF Attempt
  <2>2. jobs[i].status = "absent" /\ jobs[i].attempt = 0 /\ jobs'[i].attempt = 0
        /\ jobs'[i].status = "queued" /\ attempts'[i] = attempts[i]
    BY <1>1, <1>4 DEF LogOf, Appears
  <2> QED
    BY <1>1, <2>1, <2>2 DEF LogOf
<1>5. ASSUME NEW k \in Kind, Begins(i, k) PROVE LogOf(i)'
  <2> DEFINE n == jobs[i].attempt + 1
  <2>1. /\ jobs'[i].status = "running" /\ jobs'[i].attempt = n /\ n \in Attempt
        /\ jobs[i].status \in {"queued", "running"}
    BY <1>5 DEF Begins, Active
  <2>2. ASSUME NEW b \in Attempt
        PROVE  attempts'[i][b] = IF b = n THEN "running"
                 ELSE IF b = jobs[i].attempt /\ jobs[i].status = "running" THEN "abandoned"
                 ELSE attempts[i][b]
    BY <1>5 DEF Begins
  <2>3. ASSUME NEW b \in Attempt
        PROVE  /\ attempts'[i][b] = "none" <=> b > n
               /\ attempts'[i][b] # "succeeded"
               /\ b < n => attempts'[i][b] \in {"failed", "abandoned"}
               /\ b = n => attempts'[i][b] = "running"
    <3>1. b \in Nat /\ (b = n \/ b > n \/ b = jobs[i].attempt \/ b < jobs[i].attempt)
      BY <1>1 DEF Attempt
    <3>2. CASE b = n
      BY <2>2, <3>1, <3>2
    <3>3. CASE b > n \/ b < jobs[i].attempt
      BY <1>1, <2>1, <2>2, <3>1, <3>3 DEF LogOf
    <3>4. CASE b = jobs[i].attempt
      BY <1>1, <2>1, <2>2, <3>1, <3>4 DEF LogOf
    <3> QED
      BY <3>1, <3>2, <3>3, <3>4
  <2> QED
    BY <2>1, <2>3 DEF LogOf
<1>6. ASSUME NEW a \in Attempt, Settles(i, a) PROVE LogOf(i)'
  <2>1. /\ jobs[i].status = "running" /\ jobs[i].attempt = a /\ jobs'[i].attempt = a
        /\ jobs'[i].status \in {"succeeded", "queued", "failed", "cancelled"}
        /\ attempts'[i] = [attempts[i] EXCEPT ![a] = IF jobs'[i].status = "succeeded"
                                                     THEN "succeeded" ELSE "failed"]
    BY <1>6 DEF Settles, InTime, Fence
  <2>2. attempts[i] \in [Attempt -> {"none", "running", "succeeded", "failed", "abandoned"}]
    BY DEF TypeOK
  <2>3. ASSUME NEW b \in Attempt
        PROVE  attempts'[i][b] = IF b # a THEN attempts[i][b]
                 ELSE IF jobs'[i].status = "succeeded" THEN "succeeded" ELSE "failed"
    BY <2>1, <2>2
  <2>4. a \in Nat /\ \A b \in Attempt : b \in Nat
    BY DEF Attempt
  <2> QED
    BY <1>1, <2>1, <2>3, <2>4 DEF LogOf
<1> QED
  BY <1>2, <1>3, <1>4, <1>5, <1>6, OneRowStep

\* job_attempts records one attempt per claim, closes the superseded ones, leaves the current
\* one open while the job runs and records success once and last.
THEOREM LogMatchesRow == Spec => []AttemptLogMatchesRow
<1>1. Init => LogInv
  BY DEF Init, NoRow, LogInv, Fresh, RequeuedIsClosed, AttemptLogMatchesRow, Attempt
<1>2. TypeOK /\ LogInv /\ [Next]_vars => LogInv'
  <2> SUFFICES ASSUME TypeOK, LogInv, [Next]_vars PROVE LogInv'
    OBVIOUS
  <2>1. \A i \in Job : LogOf(i)'
    BY RowSteps, LogStep
  <2> QED
    BY <2>1 DEF LogInv, LogOf, Fresh, RequeuedIsClosed, AttemptLogMatchesRow
<1>3. LogInv => AttemptLogMatchesRow
  BY DEF LogInv
<1> QED BY <1>1, <1>2, <1>3, TypeCorrect, PTL DEF Spec

\* What a step other than Tick can do to the clocks of the statements under way: a renewal is
\* sent with a new one or keeps its own, and so does an update of runJob.
ClocksStay ==
  \A i \in Job, a \in Attempt :
    /\ renewal'[i][a] \in {None, 0, renewal[i][a]}
    /\ Sent(task'[i][a]) => \/ task'[i][a].lag = 0
                            \/ Sent(task[i][a]) /\ task'[i][a].lag = task[i][a].lag

LEMMA ClocksUntouched == ASSUME UNCHANGED <<task, renewal>> PROVE ClocksStay
BY DEF ClocksStay, Sent

\* One entry of the task table is replaced.
LEMMA OneClock ==
  ASSUME TypeOK, NEW j \in Job, NEW a \in Attempt, NEW new, task' = [task EXCEPT ![j][a] = new],
         Sent(new) => new.lag = 0 \/ (Sent(task[j][a]) /\ new.lag = task[j][a].lag),
         \A i \in Job, b \in Attempt : renewal'[i][b] \in {None, 0, renewal[i][b]}
  PROVE  ClocksStay
<1>1. task'[j][a] = new /\ \A i \in Job, b \in Attempt : <<i, b>> # <<j, a>> => task'[i][b] = task[i][b]
  BY DEF TypeOK
<1> QED BY <1>1 DEF ClocksStay, Sent

LEMMA AttemptClocks ==
  ASSUME TypeOK, NEW j \in Job, NEW a \in Attempt, Heartbeat(j, a) \/ Execute(j, a) PROVE ClocksStay
<1>1. PICK t \in Task : t = task[j][a]
  BY DEF TypeOK
<1>2. CASE RenewSends(j, a) \/ Renew(j, a)
  <2>1. UNCHANGED task
    BY <1>2 DEF RenewSends, Renew
  <2>2. PICK n \in {None, 0} : renewal' = [renewal EXCEPT ![j][a] = n]
    BY <1>2 DEF RenewSends, Renew, Answered
  <2>3. \A i \in Job, b \in Attempt : renewal'[i][b] \in {None, 0, renewal[i][b]}
    BY <2>2 DEF TypeOK
  <2> QED BY <2>1, <2>3 DEF ClocksStay, Sent
<1>3. ASSUME Answered(j, a), Abort(j, a) PROVE ClocksStay
  <2> DEFINE new == [t EXCEPT !.aborted = @ \/ t.pc = "run"]
  <2>1. task' = [task EXCEPT ![j][a] = new]
    BY <1>1, <1>3 DEF Abort, TypeOK
  <2>2. new.pc = t.pc /\ new.lag = t.lag
    BY DEF Task
  <2>3. \A i \in Job, b \in Attempt : renewal'[i][b] \in {None, 0, renewal[i][b]}
    BY <1>3 DEF Answered, TypeOK
  <2> HIDE DEF new
  <2> QED BY <1>1, <2>1, <2>2, <2>3, OneClock DEF Sent
<1>4. ASSUME UNCHANGED renewal,
             NEW new, task' = [task EXCEPT ![j][a] = new], ~ Sent(new) \/ new.lag = 0
      PROVE  ClocksStay
  BY <1>4, OneClock
<1>5. ASSUME UNCHANGED renewal, Catch(j, a) PROVE ClocksStay
  <2>1. PICK retry \in BOOLEAN :
          task' = [task EXCEPT ![j] = [task[j] EXCEPT ![a] =
                     [task[j][a] EXCEPT !.pc = "fail", !.aborted = FALSE, !.retry = retry, !.lag = 0]]]
    BY <1>5, CatchStep
  <2> DEFINE new == [t EXCEPT !.pc = "fail", !.aborted = FALSE, !.retry = retry, !.lag = 0]
  <2>2. new.lag = 0
    BY DEF Task
  <2>3. task' = [task EXCEPT ![j][a] = new]
    BY <1>1, <2>1
  <2> HIDE DEF new
  <2> QED BY <1>4, <1>5, <2>2, <2>3
<1>6. ASSUME UNCHANGED renewal, Finally(j, a) PROVE ClocksStay
  <2>1. task' = [task EXCEPT ![j][a] = Over(t)] /\ ~ Sent(Over(t))
    BY <1>1, <1>6 DEF Finally, Over, NoTask, Sent
  <2> QED BY <1>4, <1>6, <2>1
<1>7. CASE RunReturns(j, a)
  <2>1. task' = [task EXCEPT ![j][a] = [t EXCEPT !.pc = "publish"]] /\ UNCHANGED renewal
    BY <1>1, <1>7 DEF RunReturns, TypeOK
  <2>2. ~ Sent([t EXCEPT !.pc = "publish"])
    BY DEF Sent, Task
  <2> QED BY <1>4, <2>1, <2>2
<1>8. CASE PublishSends(j, a)
  <2> DEFINE new == [t EXCEPT !.pc = "commit", !.lag = 0]
  <2>1. task' = [task EXCEPT ![j][a] = new] /\ UNCHANGED renewal
    BY <1>1, <1>8 DEF PublishSends
  <2>2. new.lag = 0
    BY DEF Task
  <2> HIDE DEF new
  <2> QED BY <1>4, <2>1, <2>2
<1>9. CASE FailReads(j, a)
  <2> DEFINE new == [t EXCEPT !.pc = "settle", !.cancelSeen = jobs[j].cancel, !.lag = 0]
  <2>1. task' = [task EXCEPT ![j][a] = new] /\ UNCHANGED renewal
    BY <1>1, <1>9 DEF FailReads
  <2>2. new.lag = 0
    BY DEF Task
  <2> HIDE DEF new
  <2> QED BY <1>4, <2>1, <2>2
<1> QED
  BY <1>2, <1>3, <1>5, <1>6, <1>7, <1>8, <1>9
  DEF Heartbeat, RenewRefused, RenewFails, Execute, RunThrows, Publish, PublishUnacknowledged,
      PublishFenced, PublishRollsBack, FailFenced, FailWrites, FailLost

LEMMA PollClocks == ASSUME TypeOK, NEW r \in Runner, Poll(r) PROVE ClocksStay
<1>1. ASSUME NEW S, task' = AbortHeld(r, S), UNCHANGED renewal PROVE ClocksStay
  BY <1>1 DEF AbortHeld, ClocksStay, Sent, TypeOK, Task
<1>2. ASSUME NEW k \in Kind, Claim(r, k) PROVE ClocksStay
  <2>1. PICK j \in SelectCandidate(SweepQueue, k) : WriteClaim(SweepQueue, j, r)
    BY <1>2 DEF Claim
  <2>2. j \in Job /\ SweepQueue[j].attempt + 1 \in Attempt
    BY CandidateHasAttemptLeft
  <2> DEFINE new == [NoTask EXCEPT !.pc = "run", !.owner = r]
  <2>3. task' = [task EXCEPT ![j][SweepQueue[j].attempt + 1] = new] /\ UNCHANGED renewal
    BY <1>2, <2>1 DEF WriteClaim, Claim
  <2>4. ~ Sent(new)
    BY DEF NoTask, Sent
  <2> HIDE DEF new
  <2> QED BY <2>2, <2>3, <2>4, OneClock
<1>3. CASE \E k \in Kind : ClaimNothing(r, k)
  BY <1>3, ClocksUntouched DEF ClaimNothing
<1> QED BY <1>1, <1>2, <1>3 DEF Poll, PollKind, AbortCancelled

LEMMA ProcessClocks == ASSUME TypeOK, NEW r \in Runner, Process(r) PROVE ClocksStay
<1>1. CASE Stop(r)
  BY <1>1 DEF Stop, AbortHeld, ClocksStay, Sent, TypeOK, Task
<1>2. CASE Vanish(r)
  BY <1>2 DEF Vanish, Over, NoTask, ClocksStay, Sent, TypeOK
<1>3. CASE Restart(r)
  BY <1>3, ClocksUntouched DEF Restart
<1> QED BY <1>1, <1>2, <1>3 DEF Process, Crash, Exit

LEMMA StatementsWait == TypeOK /\ [Next]_vars => ClocksStay \/ Tick
<1> SUFFICES ASSUME TypeOK, [Next]_vars PROVE ClocksStay \/ Tick
  OBVIOUS
<1>1. CASE Request \/ UNCHANGED vars
  BY <1>1, ClocksUntouched
  DEF Request, EnqueueSystem, EnqueueAi, RetryAsNew, Insert, CancelAi, AdminCancel, vars
<1> QED BY <1>1, PollClocks, AttemptClocks, ProcessClocks DEF Next

\* An expired attempt that is still the current one gets no reprieve.
LEMMA NoNewReprieve ==
  ASSUME TypeOK, [Next]_vars, NEW i \in Job, Expired(i), jobs'[i].attempt = jobs[i].attempt,
         jobs'[i].lease = jobs[i].lease \/ Tick
  PROVE  ~ Reprieved(i)' /\ jobs'[i].lease <= 0
<1> DEFINE a == jobs[i].attempt
<1>1. jobs[i].lease \in Int /\ jobs[i].lease <= 0 /\ jobs[i].status = "running" /\ MaxLag \in Nat
  BY DEF Expired, TypeOK, Row
<1>2. ASSUME a \in Attempt, NEW lag \in LagsUnderWay(i, a) PROVE lag \in 0 .. MaxLag /\ jobs[i].lease + lag <= 0
  <2>1. lag \in 0 .. MaxLag
    BY <1>2 DEF LagsUnderWay, TypeOK, Task
  <2>2. ~ (jobs[i].lease + lag > 0)
    BY <1>2 DEF Expired, Reprieved
  <2> QED BY <1>1, <2>1, <2>2
<1>3. CASE ClocksStay /\ jobs'[i].lease = jobs[i].lease
  <2>1. ASSUME a \in Attempt, NEW lag \in LagsUnderWay(i, a)' PROVE lag = 0 \/ lag \in LagsUnderWay(i, a)
    BY <1>3, <2>1 DEF ClocksStay, LagsUnderWay
  <2>2. ASSUME a \in Attempt, NEW lag \in LagsUnderWay(i, a)' PROVE ~ (jobs'[i].lease + lag > 0)
    BY <1>1, <1>2, <1>3, <2>1, <2>2
  <2> QED BY <1>1, <1>3, <2>2 DEF Reprieved
<1>4. CASE Tick
  <2>1. jobs'[i].lease = Aged(jobs[i].lease)
    <3>1. PICK row \in Row : row = jobs[i]
      BY DEF TypeOK
    <3>2. jobs'[i] = AgedRow(row)
      BY <1>4, <3>1 DEF Tick
    <3>3. AgedRow(row).lease = Aged(row.lease)
      BY <1>1, <3>1 DEF AgedRow, Row
    <3> QED BY <3>1, <3>2, <3>3
  <2>2. ASSUME a \in Attempt, NEW lag \in LagsUnderWay(i, a)'
        PROVE  \E old \in LagsUnderWay(i, a) : lag = AgedLag(old)
    <3>a. task'[i][a] = IF Sent(task[i][a]) THEN [task[i][a] EXCEPT !.lag = AgedLag(@)]
                        ELSE task[i][a]
      <4>1. task' = [k \in Job |-> [b \in Attempt |->
                IF Sent(task[k][b]) THEN [task[k][b] EXCEPT !.lag = AgedLag(@)] ELSE task[k][b]]]
        BY <1>4 DEF Tick
      <4> QED BY <2>2, <4>1
    <3>b. renewal'[i][a] = IF renewal[i][a] # None THEN AgedLag(renewal[i][a]) ELSE None
      <4>1. renewal' = [k \in Job |-> [b \in Attempt |->
                IF renewal[k][b] # None THEN AgedLag(renewal[k][b]) ELSE None]]
        BY <1>4 DEF Tick
      <4> QED BY <2>2, <4>1
    <3>1. /\ renewal'[i][a] = IF renewal[i][a] # None THEN AgedLag(renewal[i][a]) ELSE None
          /\ task'[i][a] = IF Sent(task[i][a]) THEN [task[i][a] EXCEPT !.lag = AgedLag(@)]
                           ELSE task[i][a]
      BY <3>a, <3>b
    <3>2. task[i][a] \in Task
      BY <2>2, EntryIsTask
    <3>3. Sent(task'[i][a]) => Sent(task[i][a]) /\ task'[i][a].lag = AgedLag(task[i][a].lag)
      BY <3>1, <3>2 DEF Sent, Task
    <3> QED BY <2>2, <3>1, <3>3 DEF LagsUnderWay
  <2>3. ASSUME a \in Attempt, NEW lag \in LagsUnderWay(i, a)' PROVE ~ (jobs'[i].lease + lag > 0)
    <3>1. PICK old \in LagsUnderWay(i, a) : lag = AgedLag(old)
      BY <2>2, <2>3
    <3>2. old \in 0 .. MaxLag /\ jobs[i].lease + old <= 0
      BY <1>2, <2>3
    <3> QED BY <1>1, <2>1, <3>1, <3>2 DEF Aged, AgedLag
  <2>4. jobs'[i].lease <= 0
    BY <1>1, <2>1 DEF Aged
  <2> QED BY <2>3, <2>4 DEF Reprieved
<1> QED BY <1>3, <1>4, StatementsWait

\* Once its lease ran out and nothing sent before is left under way, an attempt neither
\* publishes nor changes its row again, however long its statements wait.
THEOREM ExpiredStaysPowerless == Spec => ExpiredAttemptIsPowerless
<1> DEFINE Powerless ==
  \A j \in Job : Expired(j) =>
         /\ published'[j] = published[j]
         /\ \/ Expired(j)' /\ jobs'[j].attempt = jobs[j].attempt
            \/ jobs'[j].status = "running" /\ jobs'[j].attempt = jobs[j].attempt + 1
            \/ jobs'[j].status = "failed" /\ Past(jobs[j].deadline)
<1>1. TypeOK /\ [Next]_vars => Powerless
  <2> SUFFICES ASSUME TypeOK, [Next]_vars, NEW i \in Job, Expired(i)
               PROVE  /\ published'[i] = published[i]
                      /\ \/ Expired(i)' /\ jobs'[i].attempt = jobs[i].attempt
                         \/ jobs'[i].status = "running" /\ jobs'[i].attempt = jobs[i].attempt + 1
                         \/ jobs'[i].status = "failed" /\ Past(jobs[i].deadline)
    OBVIOUS
  <2>1. RowStep /\ jobs[i].status = "running" /\ jobs[i].lease \in Int /\ jobs[i].lease <= 0
    BY RowSteps DEF Expired, TypeOK, Row
  <2>2. ASSUME NEW a \in Attempt, a = jobs[i].attempt, NEW lag \in LagsUnderWay(i, a)
        PROVE  ~ Fence(i, a, lag)
    BY <2>2 DEF Expired, Reprieved, Fence
  <2>3. ~ Renews(i)
    <3> SUFFICES ASSUME NEW a \in Attempt, renewal[i][a] # None, Renewable(i, a) PROVE FALSE
      BY DEF Renews
    <3>1. renewal[i][a] \in LagsUnderWay(i, a) /\ a = jobs[i].attempt /\ Fence(i, a, renewal[i][a])
      BY DEF LagsUnderWay, Renewable, Fence
    <3> QED BY <2>2, <3>1
  <2>4. ~ \E a \in Attempt : Settles(i, a)
    <3> SUFFICES ASSUME NEW a \in Attempt, InTime(i, a), Sent(task[i][a]) PROVE FALSE
      BY DEF Settles
    <3>1. task[i][a].lag \in LagsUnderWay(i, a) /\ a = jobs[i].attempt /\ Fence(i, a, task[i][a].lag)
      BY DEF LagsUnderWay, InTime, Fence
    <3> QED BY <2>2, <3>1
  <2>5. CASE Rests(i) \/ AsksFor(i)
    <3>1. /\ jobs'[i].attempt = jobs[i].attempt /\ published'[i] = published[i]
          /\ jobs'[i].lease = jobs[i].lease \/ Tick
          /\ \/ jobs'[i].status = "running"
             \/ jobs'[i].status = "failed" /\ Past(jobs[i].deadline)
      BY <2>1, <2>3, <2>5 DEF Rests, AsksFor
    <3>2. ~ Reprieved(i)' /\ jobs'[i].lease <= 0
      BY <3>1, NoNewReprieve
    <3> QED BY <3>1, <3>2 DEF Expired
  <2>6. ~ Appears(i)
    BY <2>1 DEF Appears
  <2>7. ASSUME NEW k \in Kind, Begins(i, k)
        PROVE  published'[i] = published[i] /\ jobs'[i].status = "running"
               /\ jobs'[i].attempt = jobs[i].attempt + 1
    BY <2>7 DEF Begins
  <2> QED
    BY <2>1, <2>4, <2>5, <2>6, <2>7, OneRowStep
<1> QED BY <1>1, TypeCorrect, PTL DEF Spec, ExpiredAttemptIsPowerless

\* What keeps a job claimable: a kind some runner asks for, and an attempt left while it waits.
Serviceable(j) ==
  /\ jobs[j].status # "absent" => jobs[j].kind \in Kind
  /\ jobs[j].attempt <= jobs[j].maxAttempts
  /\ jobs[j].status = "queued" => jobs[j].attempt < jobs[j].maxAttempts

AllServiceable == \A j \in Job : Serviceable(j)

LEMMA ServiceStep == ASSUME TypeOK, AllServiceable, RowStep, NEW i \in Job PROVE Serviceable(i)'
<1>1. Serviceable(i) /\ jobs[i].attempt \in Nat /\ jobs[i].maxAttempts \in Nat
  BY DEF AllServiceable, TypeOK, Row
<1>2. CASE Rests(i)
  BY <1>1, <1>2 DEF Rests, Serviceable, Active
<1>3. CASE AsksFor(i)
  BY <1>1, <1>3 DEF AsksFor, Serviceable
<1>4. CASE Appears(i)
  <2>1. jobs'[i].kind \in Kind
    BY <1>4 DEF Appears, AllServiceable, Serviceable
  <2>2. jobs'[i].attempt = 0 /\ jobs'[i].maxAttempts \in Nat \ {0}
    BY <1>4 DEF Appears
  <2> QED
    BY <2>1, <2>2 DEF Serviceable
<1>5. ASSUME NEW k \in Kind, Begins(i, k) PROVE Serviceable(i)'
  BY <1>1, <1>5 DEF Begins, Serviceable
<1>6. ASSUME NEW a \in Attempt, Settles(i, a) PROVE Serviceable(i)'
  BY <1>1, <1>6 DEF Settles, InTime, Fence, Serviceable
<1> QED
  BY <1>2, <1>3, <1>4, <1>5, <1>6, OneRowStep

\* Something is ahead of job j: a timer that runs, a statement sent in time, the sweep, or a
\* claim of its kind.
MovesOn(j) ==
  \/ jobs[j].lease > 0 \/ jobs[j].wait > 0 \/ (jobs[j].deadline # None /\ jobs[j].deadline > 0)
  \/ Reprieved(j)
  \/ SweptRow(jobs[j]) # jobs[j]
  \/ \E k \in Kind : j \in Candidates(SweepQueue, k)

NoJobIsForgotten == \A j \in Job : IsActive(j) => MovesOn(j) \/ Stranded(j)

LEMMA ServedOrStranded ==
  ASSUME TypeOK, AllServiceable, NEW j \in Job, IsActive(j), ~ MovesOn(j)
  PROVE  Stranded(j)
<1>1. PICK row \in Row : row = jobs[j]
  BY DEF TypeOK
<1>2. row.lease <= 0 /\ row.wait = 0 /\ (row.deadline # None => Past(row.deadline))
  BY <1>1 DEF MovesOn, Row, Past
<1>3. SweptRow(row) = row /\ row.status \in Active
  BY <1>1 DEF MovesOn, IsActive
<1>4. ~ Past(row.deadline)
  <2> SUFFICES ASSUME Past(row.deadline) PROVE FALSE
    OBVIOUS
  <2>1. SweptRow(row).status \in {"cancelled", "failed"}
    BY <1>3 DEF SweptRow, Row
  <2> QED
    BY <1>3, <2>1 DEF Active
<1>5. ~ (row.status = "queued" /\ row.cancel)
  <2> SUFFICES ASSUME row.status = "queued", row.cancel PROVE FALSE
    OBVIOUS
  <2>1. SweptRow(row).status = "cancelled"
    BY DEF SweptRow, Row
  <2> QED
    BY <1>3, <2>1
<1>6. SweepQueue[j] = row
  BY <1>1, <1>3 DEF SweepQueue
<1>7. row.kind \in Kind /\ (row.status = "queued" => row.attempt < row.maxAttempts)
  BY <1>1, <1>3 DEF AllServiceable, Serviceable, Active
<1>8. ~ (~ row.cancel /\ row.attempt < row.maxAttempts)
  BY <1>1, <1>2, <1>3, <1>4, <1>6, <1>7 DEF MovesOn, Candidates, Active
<1>9. row.status = "running"
  BY <1>3, <1>5, <1>7, <1>8 DEF Active
<1>10. row.cancel \/ row.attempt >= row.maxAttempts
  BY <1>8 DEF Row
<1>11. Expired(j)
  BY <1>1, <1>2, <1>9 DEF Expired, MovesOn
<1> QED
  BY <1>1, <1>2, <1>4, <1>10, <1>11 DEF Stranded

\* Until it ends, a job always has a timer, a statement sent in time, a sweep or a claim ahead,
\* or is one of the two kinds Stranded names: whatever order requeues, retries, expiries and
\* cancellations came in.
THEOREM NothingIsForgotten == Spec => []NoJobIsForgotten
<1>1. Init => AllServiceable
  BY DEF Init, NoRow, AllServiceable, Serviceable
<1>2. TypeOK /\ AllServiceable /\ [Next]_vars => AllServiceable'
  BY RowSteps, ServiceStep DEF AllServiceable
<1>3. TypeOK /\ AllServiceable => NoJobIsForgotten
  BY ServedOrStranded DEF NoJobIsForgotten
<1> QED BY <1>1, <1>2, <1>3, TypeCorrect, PTL DEF Spec

\* The runs under a lease that no late renewal gave back to them.
Counted == LiveRuns \ revived

\* Only a claim adds to them, and no step changes the kind of one there.
LEMMA CountedStep ==
  ASSUME TypeOK, TypeOK', RowStep
  PROVE  /\ \A i \in Counted : i \in Counted' => jobs'[i].kind = jobs[i].kind
         /\ \/ Counted' \subseteq Counted
            \/ \E j \in Job, k \in Kind :
                 /\ Admits(k) /\ jobs'[j].kind = k
                 /\ Counted' \subseteq Counted \cup {j}
<1>1. ASSUME NEW i \in Job, Rests(i) \/ AsksFor(i) \/ Appears(i) \/ \E a \in Attempt : Settles(i, a)
      PROVE  i \in Counted' => i \in Counted /\ jobs'[i].kind = jobs[i].kind
  <2>1. jobs[i].lease \in Int /\ jobs'[i].lease \in Int
    BY DEF TypeOK, Row
  <2>2. CASE Rests(i)
    BY <2>1, <2>2 DEF Rests, Renews, Counted, LiveRuns, Active
  <2>3. CASE AsksFor(i) \/ Appears(i)
    BY <2>3 DEF AsksFor, Appears, Counted, LiveRuns
  <2>4. ASSUME NEW a \in Attempt, Settles(i, a) PROVE i \notin Counted'
    BY <2>4 DEF Settles, Counted, LiveRuns
  <2> QED
    BY <1>1, <2>2, <2>3, <2>4
<1>2. ASSUME NEW j \in Job, NEW k \in Kind, Begins(j, k)
      PROVE  Admits(k) /\ jobs'[j].kind = k /\ jobs'[j].kind = jobs[j].kind
  BY <1>2 DEF Begins
<1>3. Counted' \subseteq Job /\ Counted \subseteq Job
  BY DEF Counted, LiveRuns
<1>4. CASE \E j \in Job, k \in Kind : OthersRest(j) /\ Begins(j, k)
  <2>1. PICK j \in Job, k \in Kind : OthersRest(j) /\ Begins(j, k)
    BY <1>4
  <2>2. \A i \in Job \ {j} : i \in Counted' => i \in Counted /\ jobs'[i].kind = jobs[i].kind
    BY <1>1, <2>1 DEF OthersRest
  <2> QED
    BY <1>2, <1>3, <2>1, <2>2
<1>5. CASE ~ \E j \in Job, k \in Kind : OthersRest(j) /\ Begins(j, k)
  <2>1. \A i \in Job : Rests(i) \/ AsksFor(i) \/ Appears(i) \/ \E a \in Attempt : Settles(i, a)
    <3>1. ASSUME NEW j \in Job, NEW i \in Job, OthersStay(j), i # j PROVE Rests(i)
      BY <3>1, StillRests DEF OthersStay
    <3> QED BY <1>5, <3>1 DEF RowStep, AllRest
  <2> QED
    BY <1>1, <1>3, <2>1
<1> QED BY <1>4, <1>5

\* Adding one element to a small finite set.
LEMMA OneMore ==
  ASSUME NEW S, NEW T, NEW x, NEW n \in Nat, IsFiniteSet(S), Cardinality(S) < n,
         T \subseteq S \cup {x}
  PROVE  Cardinality(T) <= n
<1>1. /\ IsFiniteSet(S \cup {x}) /\ Cardinality(S) \in Nat
      /\ \/ Cardinality(S \cup {x}) = Cardinality(S)
         \/ Cardinality(S \cup {x}) = Cardinality(S) + 1
  BY FS_AddElement, FS_CardinalityType, Zenon
<1>2. /\ IsFiniteSet(S \cup {x}) /\ Cardinality(S) \in Nat
      /\ Cardinality(S \cup {x}) <= Cardinality(S) + 1 /\ Cardinality(S \cup {x}) \in Nat
  BY <1>1
<1>3. Cardinality(T) <= Cardinality(S \cup {x}) /\ Cardinality(T) \in Nat
  BY <1>2, FS_Subset, FS_CardinalityType
<1> QED BY <1>2, <1>3

\* The attempts under a live lease stay within the global and the per-kind limits, whatever
\* they are; only a renewal that was sent in time and ran late adds to them.
THEOREM LimitsHold == Spec => []CapacityRespected
<1> DEFINE OfKind(k) == {j \in Counted : jobs[j].kind = k}
<1>1. Init => CapacityRespected
  <2> SUFFICES ASSUME Init PROVE CapacityRespected
    OBVIOUS
  <2>1. Counted = {}
    BY DEF Init, Counted, LiveRuns, NoRow
  <2>2. \A k \in Kind : OfKind(k) = {}
    BY <2>1
  <2>3. Cardinality({}) = 0
    BY FS_EmptySet
  <2> QED
    BY <2>1, <2>2, <2>3 DEF CapacityRespected, Counted
<1>2. TypeOK /\ TypeOK' /\ CapacityRespected /\ [Next]_vars => CapacityRespected'
  <2> SUFFICES ASSUME TypeOK, TypeOK', CapacityRespected, RowStep
               PROVE  /\ Cardinality(Counted') <= GlobalLimit
                      /\ \A k \in Kind : Cardinality({j \in Counted' : jobs'[j].kind = k})
                                           <= Concurrency[k]
    BY RowSteps DEF CapacityRespected, Counted
  <2>1. IsFiniteSet(Counted) /\ Cardinality(Counted) \in Nat
    BY FS_Subset, FS_CardinalityType DEF Counted, LiveRuns
  <2>2. \A k \in Kind : IsFiniteSet(OfKind(k)) /\ Cardinality(OfKind(k)) \in Nat
    BY <2>1, FS_Subset, FS_CardinalityType
  <2>3. \A k \in Kind : Cardinality(OfKind(k)) <= Concurrency[k] /\ Concurrency[k] \in Nat
    BY DEF CapacityRespected, Counted
  <2> DEFINE Now(k) == {j \in Counted' : jobs'[j].kind = k}
  <2>4. ASSUME Counted' \subseteq Counted
        PROVE  Cardinality(Counted') <= GlobalLimit
               /\ \A k \in Kind : Cardinality(Now(k)) <= Concurrency[k]
    <3>1. Cardinality(Counted') <= Cardinality(Counted) /\ Cardinality(Counted') \in Nat
      BY <2>1, <2>4, FS_Subset, FS_CardinalityType
    <3>2. \A k \in Kind : Now(k) \subseteq OfKind(k)
      BY <2>4, CountedStep
    <3>3. \A k \in Kind : Cardinality(Now(k)) <= Cardinality(OfKind(k)) /\ Cardinality(Now(k)) \in Nat
      BY <2>2, <3>2, FS_Subset, FS_CardinalityType
    <3>4. Cardinality(Counted) <= GlobalLimit
      BY DEF CapacityRespected, Counted
    <3> HIDE DEF Now, OfKind
    <3>5. Cardinality(Counted') <= GlobalLimit
      BY <2>1, <3>1, <3>4
    <3>6. \A k \in Kind : Cardinality(Now(k)) <= Concurrency[k]
      BY <2>2, <2>3, <3>3
    <3> QED
      BY <3>5, <3>6 DEF Now
  <2>5. ASSUME NEW j \in Job, NEW k \in Kind, Admits(k), jobs'[j].kind = k,
               Counted' \subseteq Counted \cup {j}
        PROVE  Cardinality(Counted') <= GlobalLimit
               /\ \A l \in Kind : Cardinality(Now(l)) <= Concurrency[l]
    <3>1. Cardinality(Counted) < GlobalLimit /\ Cardinality(OfKind(k)) < Concurrency[k]
      <4> DEFINE Runs == {i \in LiveRuns : jobs[i].kind = k}
      <4>1. IsFiniteSet(LiveRuns) /\ Counted \subseteq LiveRuns
        BY FS_Subset DEF Counted, LiveRuns
      <4>2. IsFiniteSet(Runs) /\ OfKind(k) \subseteq Runs
        BY <4>1, FS_Subset DEF Counted
      <4>3. Cardinality(LiveRuns) < GlobalLimit /\ Cardinality(Runs) < Concurrency[k]
        BY <2>5 DEF Admits
      <4> HIDE DEF Runs, OfKind
      <4>4. Cardinality(Counted) <= Cardinality(LiveRuns) /\ Cardinality(LiveRuns) \in Nat
        BY <4>1, FS_Subset, FS_CardinalityType
      <4>5. Cardinality(OfKind(k)) <= Cardinality(Runs) /\ Cardinality(Runs) \in Nat
        BY <4>2, FS_Subset, FS_CardinalityType
      <4> QED BY <2>1, <2>2, <2>3, <4>3, <4>4, <4>5
    <3>2. Cardinality(Counted') <= GlobalLimit
      BY <2>1, <2>5, <3>1, OneMore
    <3>3. \A l \in Kind : Now(l) \subseteq OfKind(l) \cup (IF l = k THEN {j} ELSE {})
      BY <2>5, CountedStep
    <3>4. Cardinality(Now(k)) <= Concurrency[k]
      <4>1. Now(k) \subseteq OfKind(k) \cup {j}
        BY <3>3
      <4> HIDE DEF Now, OfKind
      <4> QED
        BY <2>2, <2>3, <3>1, <4>1, OneMore
    <3>5. ASSUME NEW l \in Kind \ {k} PROVE Cardinality(Now(l)) <= Concurrency[l]
      <4>1. Now(l) \subseteq OfKind(l)
        BY <3>3
      <4> HIDE DEF Now, OfKind
      <4>2. Cardinality(Now(l)) <= Cardinality(OfKind(l)) /\ Cardinality(Now(l)) \in Nat
        BY <2>2, <4>1, FS_Subset, FS_CardinalityType
      <4> QED
        BY <2>2, <2>3, <4>2
    <3> QED
      BY <3>2, <3>4, <3>5
  <2> QED
    BY <2>4, <2>5, CountedStep
<1> QED BY <1>1, <1>2, TypeCorrect, PTL DEF Spec
-----------------------------------------------------------------------------
(* What a step can do to the executing attempts and the controllers        *)

\* An attempt knows of a cancellation only from the row.
SeesRequest ==
  \A j \in Job, a \in Attempt :
    task'[j][a].cancelSeen => task[j][a].cancelSeen \/ jobs[j].cancel

\* Attempts go on executing where they did.
KeepsOn ==
  /\ active' = active
  /\ \A j \in Job, a \in Attempt : /\ task'[j][a].pc = "gone" <=> task[j][a].pc = "gone"
                                   /\ task'[j][a].owner = task[j][a].owner

\* Runner r starts the next attempt of job j.
Starts(r, j) ==
  LET n == jobs[j].attempt + 1 IN
  /\ n \in Attempt /\ jobs'[j].attempt = n
  /\ task'[j][n].pc # "gone" /\ task'[j][n].owner = r
  /\ active' = [active EXCEPT ![r][j] = n]
  /\ \A i \in Job, b \in Attempt : <<i, b>> # <<j, n>> => task'[i][b] = task[i][b]

\* Attempt a of job j is over.
EndsTask(j, a) ==
  /\ task'[j][a].pc = "gone"
  /\ active' = [active EXCEPT ![task[j][a].owner][j] = 0]
  /\ \A i \in Job, b \in Attempt : <<i, b>> # <<j, a>> => task'[i][b] = task[i][b]

\* Runner r is gone with all it executed.
Dies(r) ==
  /\ active' = [active EXCEPT ![r] = [j \in Job |-> 0]]
  /\ \A i \in Job, b \in Attempt :
       IF task[i][b].owner = r THEN task'[i][b].pc = "gone" ELSE task'[i][b] = task[i][b]

TaskStep ==
  /\ SeesRequest
  /\ \/ KeepsOn
     \/ \E r \in Runner, j \in Job : Starts(r, j)
     \/ \E j \in Job, a \in Attempt : EndsTask(j, a)
     \/ \E r \in Runner : Dies(r)

LEMMA TasksUntouched == ASSUME UNCHANGED <<task, active>> PROVE TaskStep
BY DEF TaskStep, SeesRequest, KeepsOn

\* A task that only moves on.
LEMMA TaskMoves ==
  ASSUME TypeOK, NEW j \in Job, NEW a \in Attempt, NEW new \in Task,
         task' = [task EXCEPT ![j][a] = new], active' = active,
         new.pc = "gone" <=> task[j][a].pc = "gone", new.owner = task[j][a].owner,
         new.cancelSeen => task[j][a].cancelSeen \/ jobs[j].cancel
  PROVE  TaskStep
<1>1. task \in [Job -> [Attempt -> Task]]
  BY DEF TypeOK
<1>2. task'[j][a] = new
      /\ \A i \in Job, b \in Attempt : <<i, b>> # <<j, a>> => task'[i][b] = task[i][b]
  BY <1>1
<1>3. ASSUME NEW i \in Job, NEW b \in Attempt
      PROVE  /\ task'[i][b].pc = "gone" <=> task[i][b].pc = "gone"
             /\ task'[i][b].owner = task[i][b].owner
             /\ task'[i][b].cancelSeen => task[i][b].cancelSeen \/ jobs[i].cancel
  <2>1. CASE <<i, b>> = <<j, a>>
    BY <1>2, <2>1
  <2>2. CASE <<i, b>> # <<j, a>>
    BY <1>2, <2>2
  <2> QED BY <2>1, <2>2
<1> QED BY <1>3 DEF TaskStep, SeesRequest, KeepsOn

\* Aborting controllers.
LEMMA AbortMoves ==
  ASSUME TypeOK, NEW r \in Runner, NEW S \in SUBSET Job, task' = AbortHeld(r, S), active' = active
  PROVE  TaskStep
<1> SUFFICES ASSUME NEW j \in Job, NEW a \in Attempt
             PROVE  /\ task'[j][a].pc = "gone" <=> task[j][a].pc = "gone"
                    /\ task'[j][a].owner = task[j][a].owner
                    /\ task'[j][a].cancelSeen => task[j][a].cancelSeen
  BY DEF TaskStep, SeesRequest, KeepsOn
<1>1. PICK t \in Task : t = task[j][a]
  BY DEF TypeOK
<1>2. task'[j][a] = t \/ task'[j][a] = [t EXCEPT !.aborted = TRUE]
  BY <1>1 DEF AbortHeld
<1> QED BY <1>1, <1>2 DEF Task

\* The finally block of an executing attempt.
LEMMA FinallyEnds ==
  ASSUME TypeOK, NEW j \in Job, NEW a \in Attempt, Finally(j, a)
  PROVE  TaskStep
<1>1. task \in [Job -> [Attempt -> Task]]
  BY DEF TypeOK
<1>2. task'[j][a] = Over(task[j][a])
      /\ \A i \in Job, b \in Attempt : <<i, b>> # <<j, a>> => task'[i][b] = task[i][b]
  BY <1>1 DEF Finally
<1>3. Over(task[j][a]).pc = "gone" /\ ~ Over(task[j][a]).cancelSeen
  BY DEF Over, NoTask
<1>4. EndsTask(j, a)
  BY <1>2, <1>3 DEF EndsTask, Finally
<1>5. SeesRequest
  <2> SUFFICES ASSUME NEW i \in Job, NEW b \in Attempt
               PROVE  task'[i][b].cancelSeen => task[i][b].cancelSeen
    BY DEF SeesRequest
  <2>1. CASE <<i, b>> = <<j, a>>
    BY <1>2, <1>3, <2>1
  <2>2. CASE <<i, b>> # <<j, a>>
    BY <1>2, <2>2
  <2> QED BY <2>1, <2>2
<1> QED BY <1>4, <1>5 DEF TaskStep

LEMMA PollTasks == ASSUME NEW r \in Runner PROVE TypeOK /\ Poll(r) => TaskStep
<1> SUFFICES ASSUME TypeOK, Poll(r) PROVE TaskStep
  OBVIOUS
<1>1. CASE AbortCancelled(r)
  <2>1. {j \in Job : jobs[j].cancel} \in SUBSET Job
    OBVIOUS
  <2> QED BY <1>1, <2>1, AbortMoves DEF AbortCancelled
<1>2. ASSUME NEW k \in Kind, ClaimNothing(r, k) PROVE TaskStep
  BY <1>2, TasksUntouched DEF ClaimNothing
<1>3. ASSUME NEW k \in Kind, Claim(r, k) PROVE TaskStep
  <2>1. PICK j \in SelectCandidate(SweepQueue, k) : WriteClaim(SweepQueue, j, r)
    BY <1>3 DEF Claim
  <2>2. j \in Job /\ SweepQueue[j].attempt + 1 \in Attempt
    BY CandidateHasAttemptLeft
  <2>3. SweepQueue[j].attempt = jobs[j].attempt
    BY <2>2, SweptRests
  <2> DEFINE n == jobs[j].attempt + 1
             new == [NoTask EXCEPT !.pc = "run", !.owner = r]
  <2>4. task' = [task EXCEPT ![j][n] = new] /\ active' = [active EXCEPT ![r][j] = n]
    BY <2>1, <2>3 DEF WriteClaim
  <2>5. new.pc = "run" /\ new.owner = r /\ ~ new.cancelSeen
    BY DEF NoTask
  <2> HIDE DEF new
  <2>6. task'[j][n] = new
        /\ \A i \in Job, b \in Attempt : <<i, b>> # <<j, n>> => task'[i][b] = task[i][b]
    BY <2>2, <2>3, <2>4 DEF TypeOK
  <2>7. jobs'[j].attempt = n
    <3>1. PICK q \in Row : q = SweepQueue[j]
      BY <2>2, SweptTable
    <3>2. jobs' = [SweepQueue EXCEPT ![j] = ClaimedRow(q, r)]
      BY <2>1, <3>1 DEF WriteClaim
    <3>3. ClaimedRow(q, r).attempt = q.attempt + 1
      BY DEF ClaimedRow, Row
    <3> QED BY <2>2, <2>3, <3>1, <3>2, <3>3, SweptTable
  <2>8. Starts(r, j)
    BY <2>2, <2>3, <2>4, <2>5, <2>6, <2>7 DEF Starts
  <2>9. SeesRequest
    <3> SUFFICES ASSUME NEW i \in Job, NEW b \in Attempt
                 PROVE  task'[i][b].cancelSeen => task[i][b].cancelSeen
      BY DEF SeesRequest
    <3>1. CASE <<i, b>> = <<j, n>>
      BY <2>5, <2>6, <3>1
    <3>2. CASE <<i, b>> # <<j, n>>
      BY <2>6, <3>2
    <3> QED BY <3>1, <3>2
  <2> QED BY <2>2, <2>8, <2>9 DEF TaskStep
<1> QED BY <1>1, <1>2, <1>3 DEF Poll, PollKind

LEMMA AttemptTasks ==
  ASSUME NEW j \in Job, NEW a \in Attempt
  PROVE  TypeOK /\ (Heartbeat(j, a) \/ Execute(j, a)) => TaskStep
<1> SUFFICES ASSUME TypeOK, Heartbeat(j, a) \/ Execute(j, a) PROVE TaskStep
  OBVIOUS
<1>1. PICK t \in Task : t = task[j][a]
  BY DEF TypeOK
<1>2. CASE RenewSends(j, a) \/ Renew(j, a)
  BY <1>2, TasksUntouched DEF RenewSends, Renew
<1>3. ASSUME Abort(j, a) PROVE TaskStep
  <2> DEFINE new == [t EXCEPT !.aborted = @ \/ t.pc = "run"]
  <2>1. task' = [task EXCEPT ![j][a] = new] /\ active' = active
    BY <1>1, <1>3 DEF Abort, TypeOK
  <2>2. new \in Task /\ new.pc = t.pc /\ new.owner = t.owner /\ new.cancelSeen = t.cancelSeen
    BY DEF Task
  <2> HIDE DEF new
  <2> QED BY <1>1, <2>1, <2>2, TaskMoves
<1>4. ASSUME Catch(j, a), active' = active, t.pc # "gone" PROVE TaskStep
  <2>1. PICK retry \in BOOLEAN :
          task' = [task EXCEPT ![j] = [task[j] EXCEPT ![a] =
                     [task[j][a] EXCEPT !.pc = "fail", !.aborted = FALSE, !.retry = retry, !.lag = 0]]]
    BY <1>4, CatchStep
  <2> DEFINE new == [t EXCEPT !.pc = "fail", !.aborted = FALSE, !.retry = retry, !.lag = 0]
  <2>2. task' = [task EXCEPT ![j][a] = new]
    BY <1>1, <2>1
  <2>3. new \in Task
    BY TaskUpdates
  <2>4. new.pc = "fail" /\ new.owner = t.owner /\ new.cancelSeen = t.cancelSeen
    BY DEF Task
  <2> HIDE DEF new
  <2> QED BY <1>1, <1>4, <2>2, <2>3, <2>4, TaskMoves
<1>5. CASE RunReturns(j, a)
  <2> DEFINE new == [t EXCEPT !.pc = "publish"]
  <2>1. task' = [task EXCEPT ![j][a] = new] /\ active' = active /\ t.pc = "run"
    BY <1>1, <1>5 DEF RunReturns, TypeOK
  <2>2. new \in Task /\ new.pc = "publish" /\ new.owner = t.owner /\ new.cancelSeen = t.cancelSeen
    BY DEF Task
  <2> HIDE DEF new
  <2> QED BY <1>1, <2>1, <2>2, TaskMoves
<1>6. CASE FailReads(j, a)
  <2>1. PICK c \in BOOLEAN : c = jobs[j].cancel
    BY DEF TypeOK, Row
  <2> DEFINE new == [t EXCEPT !.pc = "settle", !.cancelSeen = c, !.lag = 0]
  <2>2. task' = [task EXCEPT ![j][a] = new] /\ active' = active /\ t.pc = "fail"
    BY <1>1, <1>6, <2>1 DEF FailReads
  <2>3. new \in Task
    BY TaskUpdates
  <2>4. new.pc = "settle" /\ new.owner = t.owner /\ new.cancelSeen = c
    BY DEF Task
  <2> HIDE DEF new
  <2>5. (new.cancelSeen => task[j][a].cancelSeen \/ jobs[j].cancel) /\ new.owner = task[j][a].owner
    BY <1>1, <2>1, <2>4, Zenon
  <2>6. new.pc = "gone" <=> task[j][a].pc = "gone"
    BY <1>1, <2>2, <2>4
  <2> QED BY <2>2, <2>3, <2>5, <2>6, TaskMoves
<1>7. CASE PublishSends(j, a)
  <2> DEFINE new == [t EXCEPT !.pc = "commit", !.lag = 0]
  <2>1. task' = [task EXCEPT ![j][a] = new] /\ active' = active /\ t.pc = "publish"
    BY <1>1, <1>7 DEF PublishSends
  <2>2. new \in Task
    BY TaskUpdates
  <2>3. new.pc = "commit" /\ new.owner = t.owner /\ new.cancelSeen = t.cancelSeen
    BY DEF Task
  <2> HIDE DEF new
  <2> QED BY <1>1, <2>1, <2>2, <2>3, TaskMoves
<1>8. CASE RenewRefused(j, a) \/ RenewFails(j, a)
  BY <1>3, <1>8 DEF RenewRefused, RenewFails
<1>9. CASE RunThrows(j, a) \/ PublishUnacknowledged(j, a) \/ PublishFenced(j, a) \/ PublishRollsBack(j, a)
  BY <1>1, <1>4, <1>9 DEF RunThrows, PublishUnacknowledged, PublishFenced, PublishRollsBack
<1>10. CASE Publish(j, a) \/ FailFenced(j, a) \/ FailWrites(j, a) \/ FailLost(j, a)
  BY <1>10, FinallyEnds DEF Publish, FailFenced, FailWrites, FailLost
<1> QED
  BY <1>2, <1>5, <1>6, <1>7, <1>8, <1>9, <1>10 DEF Heartbeat, Execute

LEMMA ProcessTasks == ASSUME NEW r \in Runner PROVE TypeOK /\ Process(r) => TaskStep
<1> SUFFICES ASSUME TypeOK, Process(r) PROVE TaskStep
  OBVIOUS
<1>1. CASE Stop(r)
  BY <1>1, AbortMoves DEF Stop
<1>2. ASSUME Vanish(r) PROVE TaskStep
  <2>1. \A i \in Job, b \in Attempt :
          task'[i][b] = IF task[i][b].owner = r THEN Over(task[i][b]) ELSE task[i][b]
    BY <1>2 DEF Vanish
  <2>2. Dies(r)
    BY <1>2, <2>1 DEF Dies, Vanish, Over, NoTask
  <2>3. SeesRequest
    BY <2>1 DEF SeesRequest, Over, NoTask
  <2> QED BY <2>2, <2>3 DEF TaskStep
<1>3. CASE Restart(r)
  BY <1>3, TasksUntouched DEF Restart
<1> QED BY <1>1, <1>2, <1>3 DEF Process, Crash, Exit

LEMMA TickTasks == TypeOK /\ Tick => TaskStep
<1> SUFFICES ASSUME TypeOK, Tick, NEW j \in Job, NEW a \in Attempt
             PROVE  /\ task'[j][a].pc = "gone" <=> task[j][a].pc = "gone"
                    /\ task'[j][a].owner = task[j][a].owner
                    /\ task'[j][a].cancelSeen => task[j][a].cancelSeen
  BY DEF TaskStep, SeesRequest, KeepsOn, Tick
<1>1. PICK t \in Task : t = task[j][a]
  BY DEF TypeOK
<1>2. task'[j][a] = t \/ task'[j][a] = [t EXCEPT !.lag = AgedLag(@)]
  BY <1>1 DEF Tick
<1> QED BY <1>1, <1>2 DEF Task

\* Every step, seen from the executing attempts.
LEMMA TaskSteps == TypeOK /\ [Next]_vars => TaskStep
<1> SUFFICES ASSUME TypeOK, [Next]_vars PROVE TaskStep
  OBVIOUS
<1>1. CASE Request \/ UNCHANGED vars
  <2>1. UNCHANGED <<task, active>>
    BY <1>1 DEF Request, EnqueueSystem, EnqueueAi, RetryAsNew, Insert, CancelAi, AdminCancel, vars
  <2> QED BY <2>1, TasksUntouched
<1> QED
  BY <1>1, PollTasks, AttemptTasks, ProcessTasks, TickTasks DEF Next

\* No attempt executes that was not claimed.
ClaimedFirst == \A j \in Job, a \in Attempt : Alive(j, a) => a <= jobs[j].attempt

\* Claims only count up.
LEMMA AttemptsGrow ==
  ASSUME TypeOK, LogInv, RowStep, NEW i \in Job
  PROVE  jobs'[i].attempt \in Nat /\ jobs'[i].attempt >= jobs[i].attempt
<1>1. jobs[i].attempt \in Nat /\ (jobs[i].status = "absent" => jobs[i].attempt = 0)
  BY DEF TypeOK, Row, LogInv, Fresh
<1>2. CASE Rests(i) \/ AsksFor(i)
  BY <1>1, <1>2 DEF Rests, AsksFor
<1>3. CASE Appears(i)
  BY <1>1, <1>3 DEF Appears
<1>4. ASSUME NEW k \in Kind, Begins(i, k) PROVE jobs'[i].attempt = jobs[i].attempt + 1
  BY <1>4 DEF Begins
<1>5. ASSUME NEW a \in Attempt, Settles(i, a) PROVE jobs'[i].attempt = jobs[i].attempt
  BY <1>5 DEF Settles, InTime, Fence
<1> QED
  BY <1>1, <1>2, <1>3, <1>4, <1>5, OneRowStep

HeldInv == LogInv /\ ClaimedFirst /\ HeldControllersAreLive

LEMMA ClaimedStep ==
  ASSUME TypeOK, HeldInv, RowStep, TaskStep, NEW i \in Job, NEW b \in Attempt,
         task'[i][b].pc # "gone"
  PROVE  b <= jobs'[i].attempt
<1>1. jobs[i].attempt \in Nat /\ jobs'[i].attempt \in Nat /\ jobs'[i].attempt >= jobs[i].attempt
      /\ b \in Nat
  BY AttemptsGrow DEF HeldInv, TypeOK, Row, Attempt
<1>2. CASE task[i][b].pc # "gone"
  <2>1. b <= jobs[i].attempt
    BY <1>2 DEF HeldInv, ClaimedFirst, Alive
  <2> QED BY <1>1, <2>1
<1>3. CASE task[i][b].pc = "gone"
  <2>1. ~ KeepsOn /\ ~ \E r \in Runner : Dies(r)
    BY <1>3 DEF KeepsOn, Dies
  <2>2. ~ \E j \in Job, a \in Attempt : EndsTask(j, a)
    BY <1>3 DEF EndsTask
  <2>3. PICK r \in Runner, j \in Job : Starts(r, j)
    BY <2>1, <2>2 DEF TaskStep
  <2>4. i = j /\ b = jobs[j].attempt + 1 /\ jobs'[j].attempt = b
    BY <1>3, <2>3 DEF Starts
  <2> QED BY <1>1, <2>4
<1> QED BY <1>2, <1>3

\* What runner s holds for job i.
Holds(s, i) ==
  active[s][i] # 0 =>
    /\ task[i][active[s][i]].pc # "gone" /\ task[i][active[s][i]].owner = s
    /\ \A b \in Attempt : task[i][b].pc # "gone" /\ task[i][b].owner = s => b <= active[s][i]

LEMMA HeldStep ==
  ASSUME TypeOK, HeldInv, RowStep, TaskStep,
         NEW s \in Runner, NEW i \in Job
  PROVE  Holds(s, i)'
<1>1. /\ active \in [Runner -> [Job -> Attempt \cup {0}]] /\ task \in [Job -> [Attempt -> Task]]
      /\ jobs[i].attempt \in Nat /\ \A b \in Attempt : b \in Nat /\ b # 0
  BY DEF TypeOK, Row, Attempt
<1>2. \A b \in Attempt : task[i][b].pc # "gone" => b <= jobs[i].attempt
  BY DEF HeldInv, ClaimedFirst, Alive
<1>3. active[s][i] \in Attempt \cup {0} /\ Holds(s, i)
  <2>1. active[s][i] \in Attempt \cup {0}
    BY <1>1
  <2>2. Holds(s, i)
    BY DEF HeldInv, HeldControllersAreLive, Alive, Holds
  <2> QED BY <2>1, <2>2
<1>4. CASE KeepsOn
  BY <1>1, <1>3, <1>4 DEF KeepsOn, Holds
<1>5. ASSUME NEW r \in Runner, NEW j \in Job, Starts(r, j) PROVE Holds(s, i)'
  <2> DEFINE n == jobs[j].attempt + 1
  <2>1. /\ n \in Attempt /\ jobs'[j].attempt = n
        /\ task'[j][n].pc # "gone" /\ task'[j][n].owner = r
        /\ active'[s][i] = IF s = r /\ i = j THEN n ELSE active[s][i]
        /\ \A b \in Attempt : (i # j \/ b # n) => task'[i][b] = task[i][b]
    BY <1>1, <1>5 DEF Starts
  <2> HIDE DEF n
  <2>2. CASE i # j
    BY <1>1, <1>3, <2>1, <2>2 DEF Holds
  <2>3. CASE i = j /\ s = r
    <3>1. \A b \in Attempt : task'[i][b].pc # "gone" => b <= n
      BY <1>1, <1>2, <2>1, <2>3 DEF n
    <3> QED BY <2>1, <2>3, <3>1 DEF Holds
  <2>4. CASE i = j /\ s # r
    <3>1. active[s][i] # 0 => active[s][i] # n
      BY <1>1, <1>2, <1>3, <2>4 DEF Holds, n
    <3> QED BY <1>1, <1>3, <2>1, <2>4, <3>1 DEF Holds
  <2> QED BY <2>2, <2>3, <2>4
<1>6. ASSUME NEW j \in Job, NEW a \in Attempt, EndsTask(j, a) PROVE Holds(s, i)'
  <2>1. /\ task'[j][a].pc = "gone"
        /\ active'[s][i] = IF s = task[j][a].owner /\ i = j THEN 0 ELSE active[s][i]
        /\ \A b \in Attempt : (i # j \/ b # a) => task'[i][b] = task[i][b]
    BY <1>1, <1>6 DEF EndsTask
  <2> QED BY <1>1, <1>3, <2>1 DEF Holds
<1>7. ASSUME NEW r \in Runner, Dies(r) PROVE Holds(s, i)'
  <2>1. /\ active'[s][i] = IF s = r THEN 0 ELSE active[s][i]
        /\ \A b \in Attempt : IF task[i][b].owner = r THEN task'[i][b].pc = "gone"
                              ELSE task'[i][b] = task[i][b]
    BY <1>1, <1>7 DEF Dies
  <2> QED BY <1>1, <1>3, <2>1 DEF Holds
<1> QED
  BY <1>4, <1>5, <1>6, <1>7 DEF TaskStep

\* A controller in a runner's map belongs to the latest attempt of that job the process still
\* executes: an overtaken attempt never takes the entry of its successor with it.
THEOREM ControllersStayLive == Spec => []HeldControllersAreLive
<1>1. Init => HeldInv
  <2> SUFFICES ASSUME Init PROVE HeldInv
    OBVIOUS
  <2>1. LogInv
    BY DEF Init, NoRow, LogInv, Fresh, RequeuedIsClosed, AttemptLogMatchesRow, Attempt
  <2> QED
    BY <2>1 DEF Init, NoTask, HeldInv, ClaimedFirst, HeldControllersAreLive, Alive
<1>2. TypeOK /\ HeldInv /\ [Next]_vars => HeldInv'
  <2> SUFFICES ASSUME TypeOK, HeldInv, [Next]_vars PROVE HeldInv'
    OBVIOUS
  <2>1. RowStep /\ TaskStep
    BY RowSteps, TaskSteps
  <2>2. LogInv'
    <3>1. \A i \in Job : LogOf(i)'
      BY <2>1, LogStep DEF HeldInv
    <3> QED
      BY <3>1 DEF LogInv, LogOf, Fresh, RequeuedIsClosed, AttemptLogMatchesRow
  <2>3. HeldControllersAreLive'
    <3>1. \A s \in Runner, i \in Job : Holds(s, i)'
      BY <2>1, HeldStep
    <3> QED
      BY <3>1 DEF HeldControllersAreLive, Alive, Holds
  <2>4. ClaimedFirst'
    BY <2>1, ClaimedStep DEF ClaimedFirst, Alive
  <2> QED
    BY <2>2, <2>3, <2>4 DEF HeldInv
<1>3. HeldInv => HeldControllersAreLive
  BY DEF HeldInv
<1> QED BY <1>1, <1>2, <1>3, TypeCorrect, PTL DEF Spec
-----------------------------------------------------------------------------
(* The queue implements its promise                                        *)

\* A failing attempt ends a job as cancelled only because the row says so.
SeenIsAsked == \A j \in Job, a \in Attempt : task[j][a].cancelSeen => jobs[j].cancel

PromiseInv == LogInv /\ EffectExactlyWithSuccess /\ SeenIsAsked

\* Requests to cancel are never withdrawn.
LEMMA AskedStaysAsked ==
  ASSUME LogInv, RowStep, NEW i \in Job, jobs[i].cancel PROVE jobs'[i].cancel
<1>1. ~ Appears(i)
  BY DEF Appears, LogInv, Fresh
<1>2. ASSUME NEW k \in Kind, Begins(i, k) PROVE jobs'[i].cancel
  BY <1>2 DEF Begins
<1>3. ASSUME NEW a \in Attempt, Settles(i, a) PROVE jobs'[i].cancel
  BY <1>3 DEF Settles
<1>4. CASE Rests(i) \/ AsksFor(i)
  BY <1>4 DEF Rests, AsksFor
<1> QED BY <1>1, <1>2, <1>3, <1>4, OneRowStep

LEMMA SeenStep == ASSUME LogInv, SeenIsAsked, RowStep, TaskStep PROVE SeenIsAsked'
<1> SUFFICES ASSUME NEW j \in Job, NEW a \in Attempt, task'[j][a].cancelSeen PROVE jobs'[j].cancel
  BY DEF SeenIsAsked
<1>1. jobs[j].cancel
  BY DEF TaskStep, SeesRequest, SeenIsAsked
<1> QED BY <1>1, AskedStaysAsked

\* In the terms of the promise: job i stays as it is, or ends without an effect.
GivesUp(i) ==
  /\ jobs'[i].key = jobs[i].key /\ jobs'[i].cancel = jobs[i].cancel
  /\ published'[i] = published[i]
  /\ \/ PhaseOf(jobs'[i].status) = PhaseOf(jobs[i].status)
     \/ jobs[i].status \in Active /\ jobs'[i].status = "failed"
     \/ jobs[i].status \in Active /\ jobs'[i].status = "cancelled" /\ jobs[i].cancel

LEMMA RestGivesUp == ASSUME NEW i \in Job, Rests(i) PROVE GivesUp(i)
BY DEF Rests, GivesUp, Active

LEMMA AllGiveUp ==
  ASSUME \A i \in Job : GivesUp(i) PROVE \E S, T \in SUBSET Job : Promise!GiveUp(S, T)
<1> DEFINE S == {i \in Job : jobs[i].status \in Active /\ jobs'[i].status = "failed"}
           T == {i \in Job : jobs[i].status \in Active /\ jobs'[i].status = "cancelled"}
<1>1. S \cap T = {} /\ \A i \in S \cup T : PhaseOf(jobs[i].status) = "open"
  BY DEF PhaseOf, Active
<1>2. \A i \in T : jobs[i].cancel
  <2> SUFFICES ASSUME NEW i \in T PROVE jobs[i].cancel
    OBVIOUS
  <2>1. PhaseOf(jobs'[i].status) # PhaseOf(jobs[i].status)
    BY DEF PhaseOf, Active
  <2> QED BY <2>1 DEF GivesUp
<1>3. ASSUME NEW i \in Job
      PROVE  PhaseOf(jobs'[i].status) =
               IF i \in S THEN "failed" ELSE IF i \in T THEN "cancelled" ELSE PhaseOf(jobs[i].status)
  BY DEF GivesUp, PhaseOf, Active
<1>4. \A i \in Job : jobs'[i].key = jobs[i].key /\ jobs'[i].cancel = jobs[i].cancel
                     /\ published'[i] = published[i]
  BY DEF GivesUp
<1> HIDE DEF S, T
<1>5. Promise!GiveUp(S, T)
  BY <1>1, <1>2, <1>3, <1>4 DEF Promise!GiveUp, S, T
<1>6. S \in SUBSET Job /\ T \in SUBSET Job
  BY DEF S, T
<1> QED BY <1>5, <1>6

LEMMA PromiseStep ==
  ASSUME TypeOK, TypeOK', PromiseInv, RowStep PROVE Promise!Next
<1>1. CASE AllRest
  BY <1>1, RestGivesUp, AllGiveUp DEF AllRest, Promise!Next
<1>2. ASSUME NEW j \in Job, OthersStay(j), AsksFor(j) PROVE Promise!Next
  <2>1. PhaseOf(jobs[j].status) # "new"
    BY <1>2 DEF AsksFor, PhaseOf, Active, TypeOK, Row, Terminal
  <2>2. \/ PhaseOf(jobs'[j].status) = PhaseOf(jobs[j].status)
        \/ PhaseOf(jobs[j].status) = "open" /\ PhaseOf(jobs'[j].status) = "cancelled"
    BY <1>2 DEF AsksFor, PhaseOf, Active
  <2>3. \A i \in Job : jobs'[i].key = jobs[i].key /\ published'[i] = published[i]
    BY <1>2 DEF AsksFor, OthersStay
  <2>4. jobs'[j].cancel = TRUE /\ jobs[j].cancel \in BOOLEAN
    BY <1>2 DEF AsksFor, TypeOK, Row
  <2>5. \A i \in Job \ {j} : jobs'[i].cancel = jobs[i].cancel /\ jobs'[i].status = jobs[i].status
    BY <1>2 DEF OthersStay
  <2>6. Promise!AskToCancel(j)
    BY <2>1, <2>2, <2>3, <2>4, <2>5 DEF Promise!AskToCancel
  <2> QED BY <2>6 DEF Promise!Next
<1>3. ASSUME NEW j \in Job, OthersStay(j), Appears(j) PROVE Promise!Next
  <2>1. PICK k \in Key \cup {None} : k = jobs'[j].key
    BY DEF TypeOK, Row
  <2>2. PhaseOf(jobs[j].status) = "new" /\ PhaseOf(jobs'[j].status) = "open"
    BY <1>3 DEF Appears, PhaseOf, Active
  <2>3. k # None => ~ \E i \in Job : PhaseOf(jobs[i].status) = "open" /\ jobs[i].key = k
    BY <1>3, <2>1 DEF Appears, PhaseOf, IsActive, Active, TypeOK, Row, Terminal
  <2>4. ~ jobs[j].cancel /\ ~ jobs'[j].cancel /\ published'[j] = published[j]
    BY <1>3 DEF Appears, PromiseInv, LogInv, Fresh
  <2>5. jobs'[j].cancel = jobs[j].cancel
    BY <2>4 DEF TypeOK, Row
  <2>6. \A i \in Job \ {j} : jobs'[i].cancel = jobs[i].cancel /\ jobs'[i].status = jobs[i].status
                             /\ jobs'[i].key = jobs[i].key /\ published'[i] = published[i]
    BY <1>3 DEF OthersStay
  <2>7. Promise!Submit(j, k)
    BY <2>1, <2>2, <2>3, <2>4, <2>5, <2>6 DEF Promise!Submit
  <2> QED BY <2>7 DEF Promise!Next
<1>4. ASSUME NEW j \in Job, NEW k \in Kind, OthersRest(j), Begins(j, k) PROVE Promise!Next
  <2>1. GivesUp(j)
    BY <1>4 DEF Begins, GivesUp, PhaseOf, Active
  <2>2. \A i \in Job : GivesUp(i)
    BY <1>4, <2>1, RestGivesUp DEF OthersRest
  <2> QED BY <2>2, AllGiveUp DEF Promise!Next
<1>5. ASSUME NEW j \in Job, NEW a \in Attempt, OthersStay(j), Settles(j, a) PROVE Promise!Next
  <2>1. CASE jobs'[j].status = "succeeded"
    <3>1. ~ jobs[j].cancel /\ published'[j] = published[j] + 1 /\ jobs[j].status = "running"
          /\ jobs'[j].key = jobs[j].key /\ jobs'[j].cancel = jobs[j].cancel
      BY <1>5, <2>1 DEF Settles, InTime, Fence
    <3>2. PhaseOf(jobs[j].status) = "open" /\ PhaseOf(jobs'[j].status) = "succeeded"
      BY <2>1, <3>1 DEF PhaseOf, Active
    <3>3. (published'[j] > 0) = TRUE
      BY <3>1 DEF TypeOK
    <3>4. \A i \in Job \ {j} : jobs'[i].cancel = jobs[i].cancel /\ jobs'[i].status = jobs[i].status
                               /\ jobs'[i].key = jobs[i].key /\ published'[i] = published[i]
      BY <1>5 DEF OthersStay
    <3>5. Promise!Succeed(j)
      BY <3>1, <3>2, <3>3, <3>4 DEF Promise!Succeed
    <3> QED BY <3>5 DEF Promise!Next
  <2>2. CASE jobs'[j].status # "succeeded"
    <3>1. GivesUp(j)
      BY <1>5, <2>2 DEF Settles, InTime, Fence, GivesUp, PhaseOf, Active, PromiseInv, SeenIsAsked
    <3>2. \A i \in Job \ {j} : Rests(i)
      BY <1>5, StillRests DEF OthersStay
    <3>3. \A i \in Job : GivesUp(i)
      BY <3>1, <3>2, RestGivesUp
    <3> QED BY <3>3, AllGiveUp DEF Promise!Next
  <2> QED BY <2>1, <2>2
<1> QED BY <1>1, <1>2, <1>3, <1>4, <1>5 DEF RowStep

\* Every behaviour of the queue is one JobPromise allows, whatever expires, crashes or is
\* retried: the rows alone keep what was promised to the producers.
THEOREM QueueKeepsPromise == Spec => ImplementsPromise
<1>1. Init => Promise!Init
  <2> SUFFICES ASSUME Init PROVE Promise!Init
    OBVIOUS
  <2>1. \A j \in Job : jobs[j] = NoRow /\ published[j] = 0
    BY DEF Init
  <2>2. PhaseOf(NoRow.status) = "new" /\ NoRow.key = None /\ NoRow.cancel = FALSE /\ (0 > 0) = FALSE
    BY DEF PhaseOf, NoRow
  <2> QED
    BY <2>1, <2>2 DEF Promise!Init
<1>2. Init => LogInv /\ SeenIsAsked
  BY DEF Init, NoRow, NoTask, LogInv, Fresh, RequeuedIsClosed, AttemptLogMatchesRow, Attempt, SeenIsAsked
<1>3. TypeOK /\ LogInv /\ SeenIsAsked /\ [Next]_vars => (LogInv /\ SeenIsAsked)'
  <2> SUFFICES ASSUME TypeOK, LogInv, SeenIsAsked, [Next]_vars PROVE LogInv' /\ SeenIsAsked'
    OBVIOUS
  <2>1. RowStep /\ TaskStep
    BY RowSteps, TaskSteps
  <2>2. \A i \in Job : LogOf(i)'
    BY <2>1, LogStep
  <2>3. LogInv'
    BY <2>2 DEF LogInv, LogOf, Fresh, RequeuedIsClosed, AttemptLogMatchesRow
  <2> QED
    BY <2>1, <2>3, SeenStep
<1>4. TypeOK /\ TypeOK' /\ LogInv /\ SeenIsAsked /\ EffectExactlyWithSuccess /\ [Next]_vars
        => [Promise!Next]_(Promise!vars)
  BY RowSteps, PromiseStep DEF PromiseInv
<1> QED
  BY <1>1, <1>2, <1>3, <1>4, TypeCorrect, EffectOnce, PTL DEF Spec, ImplementsPromise, Promise!Spec
=============================================================================
