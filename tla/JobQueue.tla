------------------------------ MODULE JobQueue ------------------------------
(***************************************************************************)
(* The background job queue: the jobs and job_attempts tables, the         *)
(* statements of src/core/db/jobs-repo.ts that change them, and the runner *)
(* processes of src/core/jobs/runner.ts that poll, execute, renew, publish *)
(* and fail.                                                               *)
(*                                                                         *)
(* Each SQL transaction that re-evaluates its predicate under a row lock   *)
(* (or under advisory lock 7234) is one action.  Whatever the code does    *)
(* between two awaited calls is a separate action, so a runner can be      *)
(* overtaken, cancelled, killed or late at every one of these points.      *)
(*                                                                         *)
(* Timestamps are modelled by the time left until them: a lease that       *)
(* expires at t > now is a timer above 0, and Tick ages every timer.  The  *)
(* code compares a stored timestamp with a clock it reads in JavaScript    *)
(* when it builds the statement, and the statement may then wait for a     *)
(* connection or a row lock: `lag` is the age of that reading when the     *)
(* statement runs, and a lease is in time for it while lease + lag > 0.    *)
(***************************************************************************)
EXTENDS Integers, FiniteSets

CONSTANTS
  Job,            \* row ids, ranked by created_at: the order candidates are taken in
  Kind,           \* registered job kinds
  AiKind,         \* the kinds whose name starts with "ai."
  Runner,         \* runner processes; a restarted process takes a slot of the same name
  Key,            \* deduplication keys
  None,           \* SQL null
  Concurrency,    \* [Kind -> Nat]: the registry's limit per kind
  GlobalLimit,    \* JOBS_CONCURRENCY
  MaxDepth,       \* active jobs per kind before enqueue refuses
  MaxAttempts,    \* jobs.max_attempts default
  AiMaxAttempts,  \* what prepareAiJob sets it to
  Lease,          \* length of a lease
  Deadline,       \* deadline of an AI job
  Backoff,        \* delay before a failed attempt may be retried
  MaxLag,         \* bound: a statement's clock reading counts as at most this old
  MaxRenewals,    \* bound: renewals under way at the same time
  MaxFaults       \* bound: crashes, shutdowns and lost database calls per behaviour

ASSUME JobAssumption == Job \subseteq Nat /\ IsFiniteSet(Job)
ASSUME KindAssumption == AiKind \subseteq Kind /\ None \notin Kind
ASSUME KeyAssumption == None \notin Key /\ None \notin Runner
ASSUME LimitAssumption ==
  /\ Concurrency \in [Kind -> Nat]
  /\ GlobalLimit \in Nat /\ MaxDepth \in Nat /\ Backoff \in Nat
  /\ MaxLag \in Nat /\ MaxRenewals \in Nat /\ MaxFaults \in Nat
  /\ MaxAttempts \in Nat /\ AiMaxAttempts \in Nat \ {0}
  /\ Lease \in Nat \ {0} /\ Deadline \in Nat \ {0}
  /\ AiMaxAttempts <= MaxAttempts
ASSUME NullAssumption == None \notin Int

VARIABLES
  jobs,       \* the jobs table
  attempts,   \* the job_attempts table: [Job -> [Attempt -> status]]
  task,       \* runJob invocations: the one that claimed attempt a of job j is task[j][a]
  runner,     \* state of each runner process
  renewal,    \* the renewal each attempt has under way: the lag of its clock, or None
  active,     \* runner's Map: job id -> the attempt whose AbortController it holds, 0 if none
  published,  \* history: how often the effect of a job was committed
  revived,    \* history: the jobs whose present lease a renewal wrote after it had run out
  faults      \* faults injected so far

vars == <<jobs, attempts, task, renewal, runner, active, published, revived, faults>>

Attempt == 1 .. MaxAttempts
Active == {"queued", "running"}
Terminal == {"succeeded", "failed", "cancelled"}

Row == [status: {"absent"} \cup Active \cup Terminal, kind: Kind \cup {None},
        key: Key \cup {None}, attempt: 0 .. MaxAttempts, maxAttempts: 0 .. MaxAttempts,
        owner: Runner \cup {None}, lease: Int, deadline: Int \cup {None}, wait: Nat, cancel: BOOLEAN]

NoRow == [status |-> "absent", kind |-> None, key |-> None, attempt |-> 0, maxAttempts |-> 0,
          owner |-> None, lease |-> 0, deadline |-> None, wait |-> 0, cancel |-> FALSE]

\* pc: "gone" before runJob starts and after its finally block; "run" in handler.run;
\* "publish" past throwIfAborted, waiting for a connection; "commit" while publish()'s update
\* is under way; "fail" on entry to fail(); "settle" while its update is.
Task == [pc: {"gone", "run", "publish", "commit", "fail", "settle"}, owner: Runner \cup {None},
         aborted: BOOLEAN, retry: BOOLEAN, cancelSeen: BOOLEAN, lag: 0 .. MaxLag]

NoTask == [pc |-> "gone", owner |-> None, aborted |-> FALSE, retry |-> FALSE,
           cancelSeen |-> FALSE, lag |-> 0]

TypeOK ==
  /\ jobs \in [Job -> Row]
  /\ attempts \in [Job -> [Attempt -> {"none", "running", "succeeded", "failed", "abandoned"}]]
  /\ task \in [Job -> [Attempt -> Task]]
  /\ renewal \in [Job -> [Attempt -> 0 .. MaxLag \cup {None}]]
  /\ runner \in [Runner -> {"up", "stopped", "down"}]
  /\ active \in [Runner -> [Job -> Attempt \cup {0}]]
  /\ published \in [Job -> Nat]
  /\ revived \subseteq Job
  /\ faults \in Nat

Init ==
  /\ jobs = [j \in Job |-> NoRow]
  /\ attempts = [j \in Job |-> [a \in Attempt |-> "none"]]
  /\ task = [j \in Job |-> [a \in Attempt |-> NoTask]]
  /\ renewal = [j \in Job |-> [a \in Attempt |-> None]]
  /\ runner = [r \in Runner |-> "up"]
  /\ active = [r \in Runner |-> [j \in Job |-> 0]]
  /\ published = [j \in Job |-> 0]
  /\ revived = {}
  /\ faults = 0

-----------------------------------------------------------------------------
(* Producers                                                               *)

IsActive(j) == jobs[j].status \in Active

ActiveOfKind(k) == {j \in Job : IsActive(j) /\ jobs[j].kind = k}

\* Mutant of Admitted: looks for the key among the queued jobs only.
AdmittedBesideRunning(k, key) ==
  /\ key # None => ~ \E j \in Job : jobs[j].status = "queued" /\ jobs[j].key = key
  /\ Cardinality(ActiveOfKind(k)) < MaxDepth

\* The two reads of enqueue() before its insert.  A collision returns the existing
\* job and a full queue throws: neither changes a row.
Admitted(k, key) ==
  /\ key # None => ~ \E j \in Job : IsActive(j) /\ jobs[j].key = key
  /\ Cardinality(ActiveOfKind(k)) < MaxDepth

NewRow(k, key, max, deadline) ==
  [NoRow EXCEPT !.status = "queued", !.kind = k, !.key = key,
                !.maxAttempts = max, !.deadline = deadline]

Insert(row) ==
  /\ Admitted(row.kind, row.key)
  /\ \E j \in Job :
       /\ jobs[j].status = "absent"
       /\ jobs' = [jobs EXCEPT ![j] = row]
  /\ UNCHANGED <<attempts, task, renewal, runner, active, published, revived, faults>>

\* The scheduler and "create backup" enqueue system kinds: no deadline, default attempts.
EnqueueSystem(k, key) ==
  /\ k \in Kind \ AiKind
  /\ Insert(NewRow(k, key, MaxAttempts, None))

\* admitAi: enqueue and prepareAiJob in one transaction.
EnqueueAi(k, key) ==
  /\ k \in AiKind
  /\ Insert(NewRow(k, key, AiMaxAttempts, Deadline))

\* jobAction "retry": the same kind and payload again, without key, deadline or prepareAiJob.
RetryAsNew(j) ==
  /\ jobs[j].status \in {"failed", "cancelled"}
  /\ Insert(NewRow(jobs[j].kind, None, MaxAttempts, None))

\* cancelAi: only an active job without a request; a queued one ends at once.
CancelAi(j) ==
  /\ IsActive(j) /\ jobs[j].kind \in AiKind /\ ~ jobs[j].cancel
  /\ jobs' = [jobs EXCEPT ![j].cancel = TRUE,
                          ![j].status = IF @ = "queued" THEN "cancelled" ELSE @]
  /\ UNCHANGED <<attempts, task, renewal, runner, active, published, revived, faults>>

\* jobAction "cancel": sets the flag whatever the status.
AdminCancel(j) ==
  /\ jobs[j].status # "absent" /\ ~ jobs[j].cancel
  /\ jobs' = [jobs EXCEPT ![j].cancel = TRUE]
  /\ UNCHANGED <<attempts, task, renewal, runner, active, published, revived, faults>>

-----------------------------------------------------------------------------
(* The poll of a runner                                                    *)

\* runJob for attempt a of job j is somewhere between its start and its finally block.
Alive(j, a) == task[j][a].pc # "gone"

\* Abort the controllers r's map holds for the jobs in S.
AbortHeld(r, S) ==
  [j \in Job |-> [a \in Attempt |->
     IF j \in S /\ active[r][j] = a /\ task[j][a].pc = "run"
     THEN [task[j][a] EXCEPT !.aborted = TRUE]
     ELSE task[j][a]]]

\* The head of tick(): abort what this process executes and someone asked to cancel.
AbortCancelled(r) ==
  /\ runner[r] = "up"
  /\ task' = AbortHeld(r, {j \in Job : jobs[j].cancel})
  /\ task' # task
  /\ UNCHANGED <<jobs, attempts, renewal, runner, active, published, revived, faults>>

LiveRuns == {j \in Job : jobs[j].status = "running" /\ jobs[j].lease > 0}

\* Mutant of Admits: an attempt that was asked to stop counts as gone.
AdmitsBesideCancelled(k) ==
  LET Counted == {j \in LiveRuns : ~ jobs[j].cancel} IN
  /\ Cardinality(Counted) < GlobalLimit
  /\ Cardinality({j \in Counted : jobs[j].kind = k}) < Concurrency[k]

Admits(k) ==
  /\ Cardinality(LiveRuns) < GlobalLimit
  /\ Cardinality({j \in LiveRuns : jobs[j].kind = k}) < Concurrency[k]

\* Whether a timestamp that may be null has passed.
Past(t) == t # None /\ t <= 0

\* Mutants of SweptRow: the deadline spares running jobs; it reaches ended ones.
SweptIfQueued(row) ==
  IF row.status = "queued" /\ row.cancel THEN [row EXCEPT !.status = "cancelled"]
  ELSE IF row.status = "queued" /\ Past(row.deadline) THEN [row EXCEPT !.status = "failed"]
  ELSE row

SweptAnyStatus(row) ==
  IF row.status = "queued" /\ row.cancel THEN [row EXCEPT !.status = "cancelled"]
  ELSE IF Past(row.deadline) THEN [row EXCEPT !.status = "failed"]
  ELSE row

SweptRow(row) ==
  IF row.status = "queued" /\ row.cancel THEN [row EXCEPT !.status = "cancelled"]
  ELSE IF row.status \in Active /\ Past(row.deadline) THEN [row EXCEPT !.status = "failed"]
  ELSE row

SweepQueue == [j \in Job |-> SweptRow(jobs[j])]

\* Mutant of Candidates: one attempt too many.
CandidatesOffByOne(q, k) ==
  {j \in Job :
     /\ q[j].kind = k /\ ~ q[j].cancel /\ ~ Past(q[j].deadline)
     /\ q[j].attempt <= q[j].maxAttempts
     /\ \/ q[j].status = "queued" /\ q[j].wait = 0
        \/ q[j].status = "running" /\ q[j].lease <= 0}

\* Rows of kind k that selectCandidate's WHERE accepts in table q.
Candidates(q, k) ==
  {j \in Job :
     /\ q[j].kind = k /\ ~ q[j].cancel /\ ~ Past(q[j].deadline)
     /\ q[j].attempt < q[j].maxAttempts
     /\ \/ q[j].status = "queued" /\ q[j].wait = 0
        \/ q[j].status = "running" /\ q[j].lease <= 0}

\* No statement writes priority, so ORDER BY is created_at alone.
SelectCandidate(q, k) ==
  {j \in Candidates(q, k) : \A i \in Candidates(q, k) : j <= i}

ClaimedRow(row, r) ==
  [row EXCEPT !.status = "running", !.attempt = @ + 1, !.owner = r, !.lease = Lease]

\* claim() reads its clock once it holds lock 7234 and is one step here: a reading that ages
\* while the sweep waits for a row only counts more leases as live and offers fewer rows.
\* A tick already under way when stop() is called goes on claiming: the loop over the kinds
\* does not look at `stopped` again.  When Admits is false, claim() returns before its sweep.
Polls(r, k) == runner[r] # "down" /\ Admits(k)

ClaimNothing(r, k) ==
  /\ Polls(r, k)
  /\ Candidates(SweepQueue, k) = {}
  /\ SweepQueue # jobs
  /\ jobs' = SweepQueue
  /\ UNCHANGED <<attempts, task, renewal, runner, active, published, revived, faults>>

\* Mutant of WriteClaim: the attempt whose lease ran out is not closed.
WriteClaimSilently(q, j, r) ==
  LET a == q[j].attempt + 1 IN
  /\ jobs' = [q EXCEPT ![j] = ClaimedRow(@, r)]
  /\ attempts' = [attempts EXCEPT ![j][a] = "running"]
  /\ task' = [task EXCEPT ![j][a] = [NoTask EXCEPT !.pc = "run", !.owner = r]]
  /\ active' = [active EXCEPT ![r][j] = a]
  /\ revived' = revived \ {j}

\* writeClaim, then runJob registers its controller under the job id.
WriteClaim(q, j, r) ==
  LET a == q[j].attempt + 1 IN
  /\ jobs' = [q EXCEPT ![j] = ClaimedRow(@, r)]
  /\ attempts' = [attempts EXCEPT ![j] =
       [b \in Attempt |->
          IF b = a THEN "running"
          ELSE IF b = q[j].attempt /\ q[j].status = "running" THEN "abandoned" ELSE @[b]]]
  /\ task' = [task EXCEPT ![j][a] = [NoTask EXCEPT !.pc = "run", !.owner = r]]
  /\ active' = [active EXCEPT ![r][j] = a]
  /\ revived' = revived \ {j}

Claim(r, k) ==
  /\ Polls(r, k)
  /\ \E j \in SelectCandidate(SweepQueue, k) : WriteClaim(SweepQueue, j, r)
  /\ UNCHANGED <<renewal, runner, published, faults>>

-----------------------------------------------------------------------------
(* A claimed attempt                                                       *)

\* Mutants of Fence: no status and lease; no lease.
FenceByAttempt(j, a, lag) == jobs[j].attempt = a /\ jobs[j].owner = task[j][a].owner

FenceWithoutLease(j, a, lag) == FenceByAttempt(j, a, lag) /\ jobs[j].status = "running"

\* The predicate of fence() for attempt a, with a clock read `lag` ago.
Fence(j, a, lag) ==
  /\ jobs[j].attempt = a /\ jobs[j].owner = task[j][a].owner
  /\ jobs[j].status = "running" /\ jobs[j].lease + lag > 0

\* The heartbeat builds an update: its clock is read here, and the update waits for a
\* connection or the row.  Neither the finally block nor the end of the process recalls it.
RenewSends(j, a) ==
  /\ Alive(j, a) /\ renewal[j][a] = None
  /\ Cardinality({p \in Job \X Attempt : renewal[p[1]][p[2]] # None}) < MaxRenewals
  /\ renewal' = [renewal EXCEPT ![j][a] = 0]
  /\ UNCHANGED <<jobs, attempts, task, runner, active, published, revived, faults>>

Answered(j, a) ==
  /\ renewal[j][a] # None
  /\ renewal' = [renewal EXCEPT ![j][a] = None]

\* Whether the update of renew() that is under way may extend the lease.
Renewable(j, a) ==
  /\ Fence(j, a, renewal[j][a]) /\ ~ jobs[j].cancel
  /\ jobs[j].deadline # None => jobs[j].deadline + renewal[j][a] > 0

\* The update matches: the new lease counts from its clock too, and one that was late gives
\* life back to a lease that had run out.
Renew(j, a) ==
  /\ Answered(j, a) /\ Renewable(j, a)
  /\ jobs' = [jobs EXCEPT ![j].lease = Lease - renewal[j][a]]
  /\ revived' = IF jobs[j].lease <= 0 THEN revived \cup {j} ELSE revived
  /\ UNCHANGED <<attempts, task, runner, active, published, faults>>

Abort(j, a) ==
  /\ task' = [task EXCEPT ![j][a].aborted = @ \/ task[j][a].pc = "run"]
  /\ UNCHANGED <<jobs, attempts, runner, active, published, revived>>

\* The update matches nothing.
RenewRefused(j, a) ==
  /\ Answered(j, a) /\ ~ Renewable(j, a)
  /\ Abort(j, a) /\ UNCHANGED faults

Fault == faults < MaxFaults /\ faults' = faults + 1

\* The renewal query itself fails.
RenewFails(j, a) ==
  /\ Answered(j, a)
  /\ Fault /\ Abort(j, a)

\* handler.run returned and throwIfAborted did not throw.
RunReturns(j, a) ==
  /\ task[j][a].pc = "run" /\ ~ task[j][a].aborted
  /\ task' = [task EXCEPT ![j][a].pc = "publish"]
  /\ UNCHANGED <<jobs, attempts, renewal, runner, active, published, revived, faults>>

\* The catch block: an AI error is retried for some reasons only, any other error always.
Catch(j, a) ==
  \E retry \in (IF jobs[j].kind \in AiKind THEN BOOLEAN ELSE {TRUE}) :
    task' = [task EXCEPT ![j][a].pc = "fail", ![j][a].aborted = FALSE,
                        ![j][a].retry = retry, ![j][a].lag = 0]

RunThrows(j, a) ==
  /\ task[j][a].pc = "run"
  /\ Catch(j, a)
  /\ UNCHANGED <<jobs, attempts, renewal, runner, active, published, revived, faults>>

\* runJob is over.  The row it was given stays known to a renewal still under way.
Over(t) == [NoTask EXCEPT !.owner = t.owner]

\* Mutant of Finally: the controller stays in the map.
FinallyKeepsController(j, a) ==
  /\ task' = [task EXCEPT ![j][a] = Over(@)]
  /\ UNCHANGED active

\* The finally block removes the entry of the job, whichever attempt it holds by now.
Finally(j, a) ==
  /\ task' = [task EXCEPT ![j][a] = Over(@)]
  /\ active' = [active EXCEPT ![task[j][a].owner][j] = 0]

\* publish() got its connection and builds the fenced update: its clock is read here.
PublishSends(j, a) ==
  /\ task[j][a].pc = "publish"
  /\ task' = [task EXCEPT ![j][a].pc = "commit", ![j][a].lag = 0]
  /\ UNCHANGED <<jobs, attempts, renewal, runner, active, published, revived, faults>>

\* The fence of the update runJob has under way.
InTime(j, a) == Fence(j, a, task[j][a].lag)

\* Mutant of Publishable: only the fence.
PublishableAnyway(j, a) == InTime(j, a)

Publishable(j, a) == InTime(j, a) /\ ~ jobs[j].cancel

\* publish(): the fenced update, the handler's effect and the attempt row in one transaction.
Commit(j, a) ==
  /\ jobs' = [jobs EXCEPT ![j].status = "succeeded", ![j].lease = 0]
  /\ attempts' = [attempts EXCEPT ![j][a] = "succeeded"]
  /\ published' = [published EXCEPT ![j] = @ + 1]

Publish(j, a) ==
  /\ task[j][a].pc = "commit" /\ Publishable(j, a)
  /\ Commit(j, a) /\ Finally(j, a)
  /\ UNCHANGED <<renewal, runner, revived, faults>>

\* The transaction committed but its caller saw an error.
PublishUnacknowledged(j, a) ==
  /\ task[j][a].pc = "commit" /\ Publishable(j, a)
  /\ Fault /\ Commit(j, a) /\ Catch(j, a)
  /\ UNCHANGED <<renewal, runner, active, revived>>

PublishFenced(j, a) ==
  /\ task[j][a].pc = "commit" /\ ~ Publishable(j, a)
  /\ Catch(j, a)
  /\ UNCHANGED <<jobs, attempts, renewal, runner, active, published, revived, faults>>

\* The handler's effect throws: everything rolls back.
PublishRollsBack(j, a) ==
  /\ task[j][a].pc = "commit" /\ Publishable(j, a)
  /\ Fault /\ Catch(j, a)
  /\ UNCHANGED <<jobs, attempts, renewal, runner, active, published, revived>>

\* fail(): its read, which waits for nothing once sent, and the clock of its update.
FailReads(j, a) ==
  /\ task[j][a].pc = "fail" /\ Fence(j, a, 0)
  /\ task' = [task EXCEPT ![j][a].pc = "settle", ![j][a].cancelSeen = jobs[j].cancel,
                          ![j][a].lag = 0]
  /\ UNCHANGED <<jobs, attempts, renewal, runner, active, published, revived, faults>>

FailFenced(j, a) ==
  /\ \/ task[j][a].pc = "fail" /\ ~ Fence(j, a, 0)
     \/ task[j][a].pc = "settle" /\ ~ InTime(j, a)
  /\ Finally(j, a)
  /\ UNCHANGED <<jobs, attempts, renewal, runner, published, revived, faults>>

\* fail(): the status its read and the claimed row call for.
FailStatus(j, a) ==
  IF task[j][a].cancelSeen THEN "cancelled"
  ELSE IF task[j][a].retry /\ a < jobs[j].maxAttempts THEN "queued" ELSE "failed"

\* The time left until a moment that may have passed already.
Later(t) == IF t > 0 THEN t ELSE 0

FailWrites(j, a) ==
  /\ task[j][a].pc = "settle" /\ InTime(j, a)
  /\ jobs' = [jobs EXCEPT ![j].status = FailStatus(j, a),
                          ![j].wait = Later(Backoff - task[j][a].lag), ![j].lease = 0]
  /\ attempts' = [attempts EXCEPT ![j][a] = "failed"]
  /\ Finally(j, a)
  /\ UNCHANGED <<renewal, runner, published, revived, faults>>

\* fail() itself throws: runJob rejects, the row keeps its lease.
FailLost(j, a) ==
  /\ task[j][a].pc \in {"fail", "settle"}
  /\ Fault /\ Finally(j, a)
  /\ UNCHANGED <<jobs, attempts, renewal, runner, published, revived>>

-----------------------------------------------------------------------------
(* The process and the clock                                               *)

\* SIGTERM: no further tick starts, and every held controller is aborted.
Stop(r) ==
  /\ runner[r] = "up" /\ Fault
  /\ runner' = [runner EXCEPT ![r] = "stopped"]
  /\ task' = AbortHeld(r, Job)
  /\ UNCHANGED <<jobs, attempts, renewal, active, published, revived>>

Vanish(r) ==
  /\ runner' = [runner EXCEPT ![r] = "down"]
  /\ active' = [active EXCEPT ![r] = [j \in Job |-> 0]]
  /\ task' = [j \in Job |-> [a \in Attempt |->
                IF task[j][a].owner = r THEN Over(task[j][a]) ELSE task[j][a]]]
  /\ UNCHANGED <<jobs, attempts, renewal, published, revived>>

Crash(r) == runner[r] = "up" /\ Fault /\ Vanish(r)

\* A stopped process exits with whatever is still in flight.
Exit(r) == runner[r] = "stopped" /\ Vanish(r) /\ UNCHANGED faults

Restart(r) ==
  /\ runner[r] = "down"
  /\ runner' = [runner EXCEPT ![r] = "up"]
  /\ UNCHANGED <<jobs, attempts, task, renewal, active, published, revived, faults>>

\* A timer that ran out goes on counting, as far as a pending clock can be old.
Aged(t) == IF t > - MaxLag THEN t - 1 ELSE t

\* Only the timers something may still read go on.
AgedRow(row) ==
  [row EXCEPT
     !.lease    = IF row.status = "running" THEN Aged(@) ELSE @,
     !.wait     = IF row.status = "queued" /\ @ > 0 THEN @ - 1 ELSE @,
     !.deadline = IF row.status \in Active /\ @ # None THEN Aged(@) ELSE @]

AgedLag(n) == IF n < MaxLag THEN n + 1 ELSE n

\* runJob has an update under way whose clock was read.
Sent(t) == t.pc \in {"commit", "settle"}

Tick ==
  /\ jobs' = [j \in Job |-> AgedRow(jobs[j])]
  /\ task' = [j \in Job |-> [a \in Attempt |->
                IF Sent(task[j][a]) THEN [task[j][a] EXCEPT !.lag = AgedLag(@)] ELSE task[j][a]]]
  /\ renewal' = [j \in Job |-> [a \in Attempt |->
                   IF renewal[j][a] # None THEN AgedLag(renewal[j][a]) ELSE None]]
  /\ <<jobs, task, renewal>>' # <<jobs, task, renewal>>
  /\ UNCHANGED <<attempts, runner, active, published, revived, faults>>

-----------------------------------------------------------------------------
Request ==
  \/ \E k \in Kind, key \in Key : EnqueueSystem(k, key) \/ EnqueueAi(k, key)
  \/ \E j \in Job : RetryAsNew(j) \/ CancelAi(j) \/ AdminCancel(j)

PollKind(r, k) == ClaimNothing(r, k) \/ Claim(r, k)

Poll(r) == AbortCancelled(r) \/ \E k \in Kind : PollKind(r, k)

Heartbeat(j, a) == RenewSends(j, a) \/ Renew(j, a) \/ RenewRefused(j, a) \/ RenewFails(j, a)

Execute(j, a) ==
  \/ RunReturns(j, a) \/ RunThrows(j, a) \/ PublishSends(j, a)
  \/ Publish(j, a) \/ PublishUnacknowledged(j, a) \/ PublishFenced(j, a) \/ PublishRollsBack(j, a)
  \/ FailReads(j, a) \/ FailFenced(j, a) \/ FailWrites(j, a) \/ FailLost(j, a)

Process(r) == Stop(r) \/ Crash(r) \/ Exit(r) \/ Restart(r)

Next ==
  \/ Request
  \/ \E r \in Runner : Poll(r) \/ Process(r)
  \/ \E j \in Job, a \in Attempt : Heartbeat(j, a) \/ Execute(j, a)
  \/ Tick

Spec == Init /\ [][Next]_vars

(***************************************************************************)
(* Fairness: the interval timer keeps ticking and each tick reaches every  *)
(* kind; a handler returns or throws; the database answers; a stopped      *)
(* process exits and is restarted (docker compose restart policy); time    *)
(* passes.  Requests, heartbeats and faults owe nothing.                   *)
(***************************************************************************)
Fairness ==
  /\ \A r \in Runner : WF_vars(AbortCancelled(r)) /\ WF_vars(Exit(r) \/ Restart(r))
  /\ \A r \in Runner, k \in Kind : WF_vars(PollKind(r, k))
  /\ \A j \in Job, a \in Attempt : WF_vars(Execute(j, a))
  /\ WF_vars(Tick)

FairSpec == Spec /\ Fairness

-----------------------------------------------------------------------------
(* Properties                                                              *)

\* The effect of a job is committed exactly when the row becomes succeeded, and so at most
\* once, however many attempts ran, expired and came back late (ADR 0010, fencing).
EffectExactlyWithSuccess ==
  \A j \in Job : published[j] = IF jobs[j].status = "succeeded" THEN 1 ELSE 0

\* Two non-terminal jobs never share a deduplication key, through every requeue, reclaim and
\* manual retry: the partial unique index jobs_active_dedup is never the one to refuse.
UniqueActiveKey ==
  \A i, j \in Job :
    IsActive(i) /\ IsActive(j) /\ jobs[i].key # None /\ jobs[i].key = jobs[j].key => i = j

\* The attempts with a live lease stay within the global and the per-kind limit although
\* claims only count the rows once and renewals, failures and expiries go on beside them.
\* Only a renewal that was sent in time and ran late can add to them: a job it revived is
\* over and above the limits until it is claimed anew.
CapacityRespected ==
  LET Counted == LiveRuns \ revived IN
  /\ Cardinality(Counted) <= GlobalLimit
  /\ \A k \in Kind : Cardinality({j \in Counted : jobs[j].kind = k}) <= Concurrency[k]

\* job_attempts tells the history of the row: one record per claim, a superseded attempt is
\* closed, the current one is open while the job runs, and success is recorded once, last.
AttemptLogMatchesRow ==
  \A j \in Job, a \in Attempt :
    /\ attempts[j][a] = "none" <=> a > jobs[j].attempt
    /\ attempts[j][a] = "succeeded" <=> jobs[j].status = "succeeded" /\ a = jobs[j].attempt
    /\ a < jobs[j].attempt => attempts[j][a] \in {"failed", "abandoned"}
    /\ jobs[j].status = "running" /\ a = jobs[j].attempt => attempts[j][a] = "running"

\* An AbortController in the runner's map belongs to a runJob that is still executing in
\* that process, and to the latest attempt the process claimed of that job.
HeldControllersAreLive ==
  \A r \in Runner, j \in Job :
    LET a == active[r][j] IN
    a # 0 => /\ Alive(j, a) /\ task[j][a].owner = r
             /\ \A b \in Attempt : Alive(j, b) /\ task[j][b].owner = r => b <= a

\* No effect is committed once a cancellation was requested, even by an attempt that had
\* passed its abort check before the request arrived.
CancelledNeverPublishes ==
  [][\A j \in Job : jobs[j].cancel => published'[j] = published[j]]_vars

\* The ages of the clocks that the statements of attempt a under way carry.
LagsUnderWay(j, a) ==
  (IF renewal[j][a] = None THEN {} ELSE {renewal[j][a]})
    \cup (IF Sent(task[j][a]) THEN {task[j][a].lag} ELSE {})

\* A statement of the current attempt, sent while the lease was live, is still to run.
Reprieved(j) ==
  \E a \in Attempt : /\ a = jobs[j].attempt
                     /\ \E lag \in LagsUnderWay(j, a) : jobs[j].lease + lag > 0

Expired(j) == jobs[j].status = "running" /\ jobs[j].lease <= 0 /\ ~ Reprieved(j)

\* An attempt whose lease ran out, with no statement left that was sent before, can never act
\* on its job again: no later heartbeat, publish or fail changes the row, until the next
\* claim supersedes the attempt or the deadline sweep fails the job.
ExpiredAttemptIsPowerless ==
  [][\A j \in Job : Expired(j) =>
       /\ published'[j] = published[j]
       /\ \/ Expired(j)' /\ jobs'[j].attempt = jobs[j].attempt
          \/ jobs'[j].status = "running" /\ jobs'[j].attempt = jobs[j].attempt + 1
          \/ jobs'[j].status = "failed" /\ Past(jobs[j].deadline)]_vars

\* A job nothing will ever pick up again: its attempt is powerless, no deadline will fail
\* it, and selectCandidate passes it over.
Stranded(j) ==
  /\ Expired(j) /\ jobs[j].deadline = None
  /\ jobs[j].cancel \/ jobs[j].attempt >= jobs[j].maxAttempts

\* Every job that is enqueued ends, or is left stranded by a lost last attempt or a lost
\* cancelled one; a job with a deadline always ends.
EveryJobSettles ==
  \A j \in Job : IsActive(j) ~> jobs[j].status \in Terminal \/ Stranded(j)

\* docs/02-architecture.md: "A job whose lease expired is claimable again."
ExpiredJobMovesOn == \A j \in Job : Expired(j) ~> ~ Expired(j)
=============================================================================
