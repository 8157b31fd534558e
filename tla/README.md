# ExecutiveOS in TLA+

Specifications, model checking and machine-checked proofs for the parts of ExecutiveOS
(Next.js server, PostgreSQL, background runner) whose correctness depends on the order in
which several processes, users or operations act. Paths such as `core/db/jobs-repo.ts` are
below `src/src/`; documents are below `src/docs/`.

## 1. The system

| Component | State | Operations | Talks to |
|---|---|---|---|
| Job queue (`core/db/jobs-repo.ts`) | tables `jobs`, `job_attempts` | enqueue, claim (admission, sweep, selection, write), renew, publish, fail | producers and runners, through SQL transactions; advisory lock 7234 |
| Runner (`core/jobs/runner.ts`) | `active` map of abort controllers, `stopped`, `busy` | 1 s tick over the kinds, 30 s heartbeat per attempt, runJob, SIGTERM | job queue, handlers of the registry |
| Scheduler, registry (`core/jobs/scheduler.ts`, `registry.ts`) | table `schedules` | one pass per minute | enqueue |
| AI jobs (`core/ai/admission.ts`, `cancel.ts`, `review.ts`, `core/db/ai-jobs-repo.ts`) | `jobs.result`, `ai_invocations`, budget settings | admit, cancel, review | job queue, notes, tasks |
| AI execution (`core/ai/execute.ts`, provider, models) | provider connection state | run a prompt, record the invocation | HTTP provider |
| Notes AI (`modules/notes/ai`, `modules/notes/jobs.ts`) | table `note_refinements` | start, publish, apply, discard, undo | AI jobs, notes, tasks |
| Notes (`modules/notes`) | tables `notes`, `note_people` | create, patch, archive, trash, restore, bulk, tags | committees, people, notifications |
| Tasks (`modules/tasks`) | tables `tasks`, `task_completions`, `task_completion_items` | create, patch, complete, undo, reopen, trash, restore, move, group, reorder | committees, people, notes; advisory lock 7240 |
| Entity core (`core/entity/service.ts`, `core/db/entity.ts`) | `revision`, `deleted_op_id` of every entity | revision-checked update, restore by operation id, audit | all modules |
| HTTP handler (`core/http/handler.ts`, `core/db/http-repo.ts`) | `idempotency_keys`, maintenance cache | one transaction per request, replay | all modules |
| Sessions and accounts (`core/auth`, `modules/users`, `modules/account`) | `users`, `sessions`, `login_attempts`, `recovery_tokens` | login, setup, recovery, deactivate, change password, revoke | advisory locks 7233 and the workspace row |
| KPIs (`modules/kpis`), people, committees | entity tables, readings, targets | CRUD, reorder, trash | locks 7311, 7312, row lock on the KPI |
| Notifications (`core/db/notifications-repo.ts`, `modules/notifications`) | `notifications` with a partial unique index | emit, feed, read, read all, purge | emitting modules |
| Backup and maintenance (`core/backup`) | files, `.maintenance` | create, verify, restore | job queue, HTTP handler |
| Auto-save in the browser (`ui/entity/save-queue.ts`, `use-save-queue.ts`, `EntityPanel.tsx`, `ui/markdown/MarkdownField.tsx`) | the save queue, the draft of the content field, the open dialog | edit, send, retry, reapply, refetch, leave | HTTP handler, through keyed and revision-checked requests |
| Settings, search, home, pagination, i18n, rest of the UI, scripts | - | reads and formatting | - |

### What is hard

- *Several runners and late attempts.* A lease that runs out hands a job to another process
  while the first is still executing. Fencing by attempt, owner, status and lease must make the
  late attempt powerless at each of its awaits.
- *Clocks read before a wait.* A lease, a deadline and a delay are compared with a time read in
  JavaScript when the statement is built; the statement then waits for a connection or a row.
- *Crashes and half-acknowledged calls.* A process dies between claim and publish; a
  transaction commits and its caller sees an error.
- *Cancellation, deadlines and shutdown* arrive between any two steps of an attempt.
- *Reads outside the lock that protects the write* (Undo of a discarded proposal, participants of
  a note, readings of a KPI, a login that still hashes, reference checks between modules).
- *Repeated requests*: an answer is lost, the client sends the request again under its key, while
  the first one still runs or after its answer expired; requests that need a second connection
  while they hold rows and locks that others wait for.
- *A browser that saves by itself*: edits, answers, refetches and other people's writes arrive
  in any order while a draft is open.
- *Long sequences of legal operations* on the task tree: completion and its Undo, trash and
  restore by operation id, moves and positions.
- *Lock order*: 7234, 7240, the note row and the job row are taken in different orders.

`PROJECT.json` lists each hazard at its line, with the properties that cover it or the reason why
none does.

### What makes each component correct

- Queue: an effect is committed once, and only with `succeeded`; keys are unique among active
  jobs; limits hold; a cancelled job never takes effect; an expired attempt is powerless; the
  attempt log agrees with the row; every job ends.
- Notes AI: tasks are created once per applied job; a proposal is applied only to the note it
  was made from; the three records of a review agree; what is pending is current.
- Tasks: depth one, nothing live below the trash, distinct positions, exact undo, exact restore.
- Requests: what is asked under one key is done once; a client is told only what is true; every
  request ends.
- Accounts: an active administrator remains; failures are bounded; a session that had to end is over.
- Notes: participants are those last asked for; a deleted tag stays away.
- KPIs: no index answers a client; trash and restore lose nothing; the list and the record agree;
  better never reads worse; time makes a status stale, and nothing else unless a reading or a
  target was dated ahead.
- Auto-save: "saved" is shown only for what is saved; nothing unseen is overwritten; the reader's
  own saves keep the draft.

## 2. Modules

| Module | Models | Used by |
|---|---|---|
| `JobPromise` | what the queue promises its producers (abstract) | `JobQueueRefinement`, `NoteAi` |
| `JobQueue` | queue, runners, faults, clock | `JobQueueRefinement`, `JobQueueProofs` |
| `JobQueueRefinement` | the refinement mapping from `JobQueue` to `JobPromise` | `MCJobQueue` |
| `JobQueueProofs` | theorems about `JobQueue` | |
| `NoteAi` | note assistance over the promise of the queue | `NoteAiProofs`, `MCNoteAi` |
| `Tasks` | the task tree and its operations | `TasksProofs`, `MCTasks` |
| `Notebook` | notes with tags and participants, and the people they name | `NotebookProofs`, `MCNotebook` |
| `Kpis` | a KPI with its readings and targets under concurrent requests | `KpisProofs`, `MCKpis` |
| `KpiScore` | periods, status, achievement and effective target | `KpisProofs`, `MCKpiScore` |
| `Accounts` | users, sessions, passwords, login throttle | `AccountsProofs`, `MCAccounts` |
| `Requests` | request transactions, idempotency keys, connection pool, waits for locks | `RequestsProofs`, `MCRequests` |
| `Autosave` | the browser's save queue and draft against the server | `AutosaveProofs`, `MCAutosave` |
| `*Proofs` | theorems about the module of that name (`KpisProofs`: about `Kpis` and `KpiScore`) | |
| `MC*` | instances: constant definitions and symmetry sets | the `.cfg` files |

The modules follow the transactions of the code. What a transaction does from its first lock or
write on, up to its commit or rollback, is one action where nothing can come in between;
each read before that, and each wait inside it that lets others run, is a step of its own. A
definition whose comment says "Mutant of" is a plausible mistake in the definition it names and
is used by no specification; `PROJECT.json` pairs each property with one that breaks it.

### JobQueue

State. `jobs` is the table, one record per id of `Job` (ids are ranked by `created_at`, and
`status = "absent"` before the insert). `attempts[j][a]` is the `job_attempts` row of attempt
`a`. `task[j][a]` is the `runJob` invocation of that attempt: its position (`run` inside
`handler.run`; `publish` after `throwIfAborted`; `commit` while the update of `publish()` is under way;
`fail` on entry to `fail()`; `settle` while its update is), the process, its abort signal.
`renewal[j][a]` is the renewal the heartbeat has under way. `runner` and `active` are the processes
and their controller maps. `published` counts committed effects, and `revived` holds the jobs whose
lease a late renewal brought back to life; both are history.

Time. A timestamp is only ever compared with the clock, so it is kept as the time left until it
(`lease`, `wait`, `deadline`), and `Tick` ages all of them; ticks interleave with everything. The
clock is read in JavaScript when a statement is built (`fence()`, `renew()`, `publish`, `fail`), and the
statement may wait for a connection or for the row. So building it is a step (`RenewSends`,
`PublishSends`, `FailReads`), running it another one (`Renew`, `Publish`, `FailWrites` and their refusals), and
between the two it carries the age of its clock (`lag`): a lease is in time for it while
`lease + lag > 0`, and the lease it writes has `lag` less to run. A renewal under way outlives the attempt
and the process that sent it. `claim()` reads its clock once it holds lock 7234 and is one step: if that
reading ages while its sweep waits for a row, it counts more leases as live and offers fewer rows,
as a claim at the earlier instant would.

Atomicity. A transaction that takes advisory lock 7234 or re-evaluates its predicate under the
row lock is one action. Between two awaits everything else may happen: `RunReturns` (past the
abort check), `PublishSends`, `Publish`, `FailReads` and `FailWrites` are separate. `Claim` includes the sweep
and the attempt rows; `ClaimNothing` is a claim whose sweep changed something and that found
no candidate. When admission refuses, `claim()` returns before its sweep, so nothing happens.

Faults. `Crash` (process vanishes with its memory), `Stop` then `Exit` (SIGTERM), `RenewFails`,
`PublishUnacknowledged` (committed, caller sees an error), `PublishRollsBack` (the effect throws)
and `FailLost` (`fail()` throws). `MaxFaults` bounds their number in a behaviour.

Abstractions. Payloads, results and error texts; the 100 rows of the queue limit are
`MaxDepth`; backoff is one delay, not three. `priority` is left out: no statement writes it.
The reason of an AI error is the choice whether `fail()` may retry.

### JobPromise and the refinement

`JobPromise` has four functions on jobs: phase, key, cancellation asked, effect. The mapping
merges queued and running into `open` and hides attempts, leases and runners.
`ImplementsPromise` says that every behaviour of the queue is one of the promise, so `NoteAi`
uses the promise in place of the queue.

### NoteAi

One note (`revision`, `deleted`) and the jobs admitted for it. The rows of a job are its
`payload` snapshot, its `review` (the `discarded` and `appliedIds` fields of `jobs.result`) and its
`proposal` (status of its `note_refinements` row). Transactions that hold the note row, or the
row of a finished job, while they run are one action. `startNoteAi` is two (`StartReads` holds
the note row, then `StartAdmits` or `StartEnds`), and so is `restoreNoteAi`
(`RestoreReads`, `RestoreWrites`), because it reads the note without a lock. Where
`note_refinements_pending_idx` refuses a row the transaction rolls back. History variables:
`tasks` counts how often the tasks of a job were created, `outdated` holds the jobs admitted
before the latest change of the note, `restored` those whose proposal came back through Undo.

### Tasks

Every operation takes lock 7240 before it reads, so it is one action, with every row it writes:
`Complete` completes the open subtasks and records one item per row, `Restore` brings back the
subtasks of the same operation behind the existing siblings, `Group` creates the parent and moves
the children. A request with a stale revision changes nothing, so actions are taken with the
current one. Operation ids may be used again once no row refers to them. Titles, dates, owners,
committees and notifications are left out: none of them guards a write of the tree.
`asWas` and `changed` are history: the statuses before each completion, and the rows of the
completion written again since.

### Notebook

State. `note` is the notes table with the rows of `note_people` (`people`), `person` the people
outside the trash, `txn` what each client's page shows and its request has read. A patch is three
steps: `OpenPage` (getNote hides participants in the trash), `CheckPatch` (`patchNote` compares the
revision and reads people and participants without a lock), `WritePatch` (`setParticipants` writes
the difference to what was read, then `setNoteFields` succeeds only at the page's revision, or
all of it rolls back). A bulk request reads its notes and writes them by their revisions: if one
of them changed in between it fails as a whole, so one that changes anything is one step on the notes
as they are (`BulkArchive`, `BulkTag`, `ManageTags`). `asked`, `deleted` and `hidden` are history.
Titles, bodies, dates, pinning and owners guard no write modelled here and are left out.

### Kpis and KpiScore

`Kpis` is one KPI's row, its children in the order of insertion, and the requests in flight. A
request's unlocked checks are steps (`Begin`, `ReadOn`), then either the KPI's row lock (`LockKpi`)
or the revision-checked update. Partial unique indexes are guards: where one refuses a row the
request fails with a server error, recorded in `failed`. `RemoveKpi` and `RestoreKpi` hide and
reveal the children of one operation id.

`KpiScore` is the pure arithmetic of `core/time/kpis.ts` and `schema/validation.ts` as operators,
and one measure whose readings and targets change while days pass. A reading may be of a past day, of
today or of a day ahead (KPIS-B09): `Current` is the latest one up to today, so that one dated ahead counts
from the day it is reached. The calendar (`MonthOf`) is a constant. `Row` is what the list shows, `DeriveMeta(offset)` what it shows shifted by a
period, `PeriodEntry(offset)` what the record shows. The status thresholds are those of the setting's
default (`Band`); the workspace may choose others, and nothing is said about those.

### Accounts

`user`, `session` and `failures` are the tables; `txn` what each open request has read; `loginLock`
and `adminLock` the two locks that serialise logins and administration. Hashing a password is a
wait of its own in one of `Slots` slots, between a request's reads and its writes, so a user can be
deactivated or lose sessions while a login verifies. Whether a password is right is a free choice.
`proof` in a session and `outdated` in a request are history: they say whether the session had
to end.

### Requests

`call[s]` is one request of the process: it arrives, gets a connection (`Connect`), takes the advisory lock
of its key and looks the key up (`LockRequest`), works, and commits with its answer under its key. What its
handler waits for while it holds the connection is its plan (`todo`): a row or an advisory lock that others
hold (`Take`), or a second connection (`Nest`, `Unnest`: a login, a recovery and the setup open a transaction
of their own, and whoever reads the models reads them through the pool). `startNoteAi` does the latter while
it holds the note's row (`GeneratePlan`), so requests that wait for that row can hold all the other
connections. A ring of locks PostgreSQL ends (`BreakDeadlock`, for a request of such a ring); a wait
for a connection it does not know of. A plan is simpler than its handler in three ways: reads of the models that
follow one another count as one, all locks are exclusive, and a handler that locks in an inner transaction holds
nothing in the outer one (`PlanAssumption`, true of all three). What a handler does between two waits is
no step of its own, so it may throw (`Fail`) at any of them. Clients repeat requests under their keys, with the same or
another body; answers are lost; stored answers expire and are pruned; the process crashes.
Maintenance mode and authentication are left out: they refuse a request before it does anything.

### Autosave

`q` is `SaveQueue.q`: pending and failed patches, the entity they are based on, the running request
and the kept key. `field` is the draft of the content field with its `Commits`, `item` the record as
last fetched, `waiting` the commits that wait for people to be created, `panel` the guard and its dialog.
`net` and `reply` are the two directions of the connection: a request may be lost before or after
the server works on it, or reach it after the browser gave up. `OutsideEdit` is another person. Texts are
compared for equality only; two are enough to type, return to and echo one.

## 3. Runs

| Run | Instance | What it shows |
|---|---|---|
| `job_queue_safety` | 2 jobs, a system and an AI kind, 2 keys, 1 runner, 1 attempt, limits 2 (all), 1 (system) and 2 (AI), 1 fault, lease 2, clocks up to 1 old, 1 renewal at a time | types, unique keys, limits but for what a late renewal revives |
| `job_queue_two_runners` | 1 job, 2 runners, 2 attempts, lease 2, 1 fault, clocks up to 1 old, a renewal for each attempt, with fairness | single effect, attempt log, live controllers, no effect after cancellation, expired attempts powerless; refinement of `JobPromise`; every job ends or is stranded |
| `job_expired_lease` | 1 job, 1 runner, 1 fault, with fairness | violation: a row whose lease expired can stay running for ever |
| `note_ai_review` | 2 jobs, member and administrator, 4 revisions | records agree, tasks once, applied to the snapshot, pending is current unless undone |
| `tasks` | 3 tasks, 2 operation ids, 5 writes after creation | depth one, nothing live below the trash, positions, exact undo and restore |
| `notebook` | 2 notes (one edited singly, one in bulk), 1 person, 2 tags, 2 clients, 1 tag per note, 2 revisions | participants are those last asked for; deleted tags stay away |
| `hidden_participants` | 1 note, 1 person, 1 client | violation: saving the participants a page shows removes the hidden one |
| `kpis` | 2 clients, 2 keys, 3 children, 3 revisions | the index never answers, nothing is lost by trash and restore, restores succeed, deleted rows rest |
| `kpi_score` | 4 amounts, targets of 0 and 100 in 2 years and periods 1, 4, 12, at most 2 at a time, 12 days in 11 months, at most 2 readings on 3 of the days | next effective target, record and list agree, better never reads worse, time only ages |
| `accounts` | 2 users, 1 client address, 2 requests at a time, 1 failure allowed, 2 hash slots, 2 sessions, 2 revisions | an administrator remains, failures bounded, ended sessions stay ended |
| `requests` | 3 requests at a time, 1 key, 2 bodies, 2 connections, 4 locks and 4 plans, with fairness | one effect per key, answers are true, every request ends unless the pool is jammed |
| `autosave` | 2 texts, 3 edits, 2 failures, 1 outside write | settled means saved, a quiet field is true, nothing unseen overwritten, own saves keep the draft |

Bounds and why they are enough to meet the interesting cases:

- Two jobs suffice for a key collision, for a per-kind limit of one, for two attempts of different
  jobs in one process and for a claim that sweeps another job (the global limit is the same test
  on a larger set and does not bind here). They never get a second attempt in that run: what
  several attempts of a job do to each other is the other run's question, where one process
  meets the overwritten controller and two meet the takeover of a lease; of its two attempts the first may
  be retried and the second is the last. A third attempt does not finish in the time a run may take.
  One fault is enough for each path of recovery; expiries, fenced calls, late statements and
  cancellations are not faults and are not bounded.
- Timers of one or two ticks make every comparison (in time, just expired) happen in every order. A
  clock one tick old is enough for a statement that was sent in time and runs after the lease it
  read; the theorems cover any age (section 4). `MaxRenewals` bounds the renewals under way: one for each attempt
  where the attempts of a job compete, and one where limits are the question, which is enough to revive a lease.
- In `note_ai_review` the second job is a second generation, a retry of the first one, or the
  other capability; four revisions let the note change, go to the trash and come back.
- Three tasks are a parent with two subtasks or a group; two operation ids give nested deletions,
  two completions of the same rows, and a deletion between a completion and its undo. Five
  writes after creation allow a completion, a reopening, a second completion and the undo of the
  first, or two nested deletions with both restores.

- In `notebook` a second note is needed for a bulk request that meets a note with room and one
  without; one note edited by two clients has every race of patches; one person is enough to be
  added, removed, hidden and shown. One tag a note makes the limit bind. Two revisions of change let
  a patch be outrun by a patch, a deletion or a tag's removal.
- In `kpis` two requests are every pair of a check and a write; three children are a reading, its
  replacement on the same day and a target; three revisions allow a deletion, a restoration and
  a second deletion.
- In `kpi_score` the amounts lie in every band of a target of 100 in both directions, and on zero's
  other side; the months 20 to 30 cross a change of year and the periods of each frequency, and one of them has two
  days. A reading may be dated to the first day, the third or the ninth: to be stale, replaced on its
  day, or reached while another one is stale or the current one.
- In `accounts` two administrators, two requests and two hash slots give the mutual demotion, the login
  against a deactivation and the two guesses at once; one allowed failure makes the limit bind. Two
  requests cannot queue three deep on a lock; the theorem covers any number. All requests come from one
  client address, whose bucket is never emptier than that of an e-mail: the run would not notice if the
  second one were not asked.
- In `requests` three requests over a pool of two are one more than fit; one key shared by all of them
  is the worst case, and two bodies tell a repetition from a misuse of the key. The plans are two bulk
  requests with the same two notes in opposite orders (a ring), the start of an AI job of one of these notes
  (a jam behind a row) and a login (a jam in an inner transaction). The bulk request may have the key;
  the other two take none.
- In `autosave` three edits are one saved, one on its way and one in the draft; two failures are a lost
  answer and a lost retry; one outside write meets each moment of that. A run with two outside
  writes reached 33 million states without a violation before it was stopped.

Deadlock checking is off: a queue whose jobs have all ended, a note at its last revision, a
tree whose writes are used up, a jammed pool and a panel that was left have no further step.

### Fairness

`JobQueue`. `FairSpec` assumes what the process and its environment provide: the interval timer reaches
every kind (`PollKind`) and aborts cancelled work; a handler returns or throws and the database
answers (`Execute`); a stopped process exits and docker compose restarts it (`Exit` or `Restart`);
time passes (`Tick`). Requests, heartbeats and faults are never owed. All of it is weak
fairness. A handler that hangs for ever is outside this assumption: its heartbeat would
renew its lease for ever, as in the code.

`Requests`. `Serve(s)` of every request is strongly fair: a request that is again and again able to
go on (a connection, its key or a lock becomes free) at last does, because the pool and PostgreSQL queue their
waiters, and PostgreSQL looks for a ring of locks after `deadlock_timeout`. Clients, handlers that throw,
crashes and expiry are never owed. `EveryRequestEnds` excepts `Jammed`: the pool has no
`connectionTimeoutMillis`, so when no connection is left and everyone who holds one waits, for a second
one or for a key or a lock of another who waits, nothing ends them. The other runs need no fairness: their properties are safety.

### Disagreements between code and documents

Two violation runs, quoted under `findings` in `PROJECT.json`:

- `job_expired_lease`: a manual backup whose last attempt is lost in a crash stays `running`, and blocks
  every later manual backup, because its key stays active. `EveryJobSettles` names the two ways a row can
  be stranded (`Stranded`); the run that passes says there is no third.
- `hidden_participants`: the page hides a participant who is in the trash, and saving the participants it
  shows removes that one for good. `ParticipantsAsAsked` does not contradict this: the code does exactly
  what the request says.

Other departures met while modelling, each kept in the model as the code has it:

- `publish` does not look at `deadline_at`: a run that started in time may succeed after it.
- `renew()` takes its clock before it waits for a connection or the row. One that was sent in time and runs
  after the lease revives it, although a claim may have counted it as free: for a while more attempts
  run than the limits allow, which `docs/02-architecture.md:137` says are enforced at claim time. `CapacityRespected`
  names those jobs (`revived`). In the same way a `publish` or `fail` that was sent in time still takes effect
  after the lease; `ExpiredAttemptIsPowerless` begins once no such statement is left (`Expired`).
- `startNoteAi` reads the models through the pool while it holds the note's row: a few patches of that note
  and one such request stop the server for good once they hold all connections (`Jammed`).
- A retry by an administrator skips `prepareAiJob`, so a retried AI job runs three attempts, not two.
- The sweep fails a row and leaves its attempt in `job_attempts` open; `AttemptLogMatchesRow` therefore
  says which attempt is open only of a job that runs.
- Undo of a discarded proposal reads the note without its lock: a proposal made from an older
  revision can become pending (`PendingIsCurrentUnlessUndone`).
- A login that verified the old password inserts its session after the password changed; such a
  session is `late` and outside `RevocationHolds`.
- A KPI whose frequency changes keeps targets of periods its new frequency does not have; `Sane` excludes
  them from what `KpiScore` says about targets.
- Two requests that add the same participant at once: the second is answered by the unique index.
- The guard of the panel does not wait for a commit that still waits for people to be created
  (`docs/features/entity-pages.md`, EP-B11, says it settles everything).
- A commit held back by a person's creation, while another field's save moved the queue on, is sent
  on the newer revision and overwrites an outside change the reader has not seen: the `late` case
  of `NeverOverwritesUnseen`.
- After a lost answer and an outside change, retyping a text sent under the kept key replays its
  answer and reports "saved" although the row holds the other text: the `echoed` case.
- "Reload and reapply" applies at once, without the confirmed comparison of EP-B10.

## 4. Proofs

TLAPS checks the theorems below for every value of the constants that satisfies the named
assumptions of the module (`JobAssumption`, `LimitAssumption`, `PoolAssumption`, ...): any
number of jobs, tasks, users, requests, keys, revisions, and any limits. The assumptions say that
limits and bounds are natural numbers (a lease, a deadline and a job's attempts at least 1), that SQL null (`None`) is no ordinary value, that `Job`, `Tag`
and `Slot` are finite and that the pool has two connections; TLC evaluates them in every run.

Every invariant was checked by TLC first. An invariant that is not inductive is proved
from `IInv`, by `Init => IInv`, `IInv /\ [Next]_vars => IInv'` and `IInv => Inv`; the
conjuncts of `IInv` that are not properties of a run are named below with the reason they are needed.

### JobQueueProofs

| Theorem | Property | Rests on |
|---|---|---|
| `TypeCorrect` | `TypeOK` | inductive; a row is proved well formed as inserted, claimed, swept and aged |
| `EffectOnce` | `EffectExactlyWithSuccess` | `StepKinds`: only a commit touches `published` |
| `KeysStayUnique` | `UniqueActiveKey` | `StepKinds`: only an insert adds an active key, and `Admitted` guards it |
| `CancellationWins` | `CancelledNeverPublishes` | `StepKinds`: a commit needs `Publishable` |
| `LogMatchesRow` | `AttemptLogMatchesRow` | `Fresh` (a row never inserted counts no attempt), `RequeuedIsClosed` (whoever requeued a job closed its attempt: else the next claim would leave it open) |
| `LimitsHold` | `CapacityRespected` | `CountedStep`: only a claim adds a live lease that no renewal revived, under `Admits`; cardinalities of finite sets |
| `ExpiredStaysPowerless` | `ExpiredAttemptIsPowerless` | `RowSteps`; `NoNewReprieve`: a statement sent after the lease ran out carries a clock at which it had run out, and none grows younger (`StatementsWait`) |
| `ControllersStayLive` | `HeldControllersAreLive` | `ClaimedFirst` (no attempt executes that was not claimed): a new attempt is later than all that execute |
| `NothingIsForgotten` | — | `AllServiceable`: every job is of a registered kind, and a queued one has an attempt left (`FailStatus` requeues only below the limit that `Candidates` reads) |
| `QueueKeepsPromise` | `ImplementsPromise` | `SeenIsAsked` (`fail()` settles a job as cancelled only because the row says so), `LogInv`, `EffectOnce` |

The key lemmas sort the steps before any property is proved. `StepKinds`: a step is quiet for
every job, inserts one row, or commits one publishable attempt. `RowSteps`: every row rests (time, renewal,
sweep), or one job is asked to be cancelled, appears, begins an attempt while the others rest, or settles one.
`TaskSteps`: the executing attempts go on, one starts, one ends, or a process dies with all of its own.
The theorems hold for every `MaxLag`, the greatest age a clock may have. The model stops counting an age, and
the time since a lease ran out, at `MaxLag`; a finite behaviour of the program in which no statement waits longer
than some time is one of the model with a `MaxLag` of that time, where nothing is cut off, so that the
safety theorems speak of waits of any length.
`NothingIsForgotten` is the safety core of `EveryJobSettles`: an active job always has a running timer,
a statement under way that was sent in time, a sweep that ends it or a claim of its kind ahead of it, or it is `Stranded`. That these steps are then
taken is fairness, and TLC's.
For the refinement, a step in which jobs rest, begin or fail maps to `GiveUp` (which a stutter is,
with empty sets), the others to `Submit`, `AskToCancel` and `Succeed`.

### The other modules

| Module | Theorems | `IInv` adds |
|---|---|---|
| `NoteAiProofs` | `NoteAiTyped`, `ReviewsAgree`, `TasksCreatedOnce`, `PendingStaysCurrent`, `AppliesOwnSnapshot` | `SnapshotsAge`: snapshots from before the latest change carry an older revision; `OnlyRefinements`, `OnlyResults`: what can have a proposal, an Undo or a review; `StartingIsCurrent`: an admission under way holds the note as read |
| `RequestsProofs` | `RequestsTyped`, `KeyedEffectOnce`, `AnswersStayTrue`, `OnlyTheJamBlocks` | `KeyHeldOnce`: a key's lock has one holder; `HeldKeyUnanswered`: no answer is kept while it is held; `HistoryIsKept`: the stored answer is that of the one effect; `HoldersWork`: only requests at work hold locks or a second connection |
| `AccountsProofs` | `AccountsTyped`, `AnAdministratorRemains`, `GuessesStayBounded`, `EndedSessionsStayEnded` | `LocksAreHeld`: one request at a time verifies a password or counts administrators; `CountStands`: what was counted is true until the lock is let go; `LoginStands`: a login under way found its buckets open; `EndedIsOver` |
| `TasksProofs` | `TasksTyped`, `DepthStaysOne`, `LiveStaysBelowLive`, `PositionsStayUnique`, `FenceIsSound`, `UndoIsAlwaysExact`, `RestoreIsAlwaysExact` | `PositionsDiffer`: positions differ in the trash too, or a restore could not keep the order; `DeletedTogether`: what one deletion took is a task with its subtasks; `ItemsAreExact`: a completion's items are the statuses it found |
| `NotebookProofs` | `NotesTyped`, `ParticipantsStayAsAsked`, `DeletedTagsStay` | `PagesFit`: while a note has the revision of a page its participants are those the request read, which is why they are safe without a lock |
| `KpisProofs` | `KpisTyped`, `DatesAreLookedUpInTime`, `NothingIsLost`, `RestoreStaysPossible`, `TheDeletedRest` | `RowsFollow`: a row is gone or shares the KPI's fate; `KeysDiffer`: also in the trash; `RequestsFit`: what a request read is still true or its revision shows that it is not; `LockIsHeld` |
| `KpisProofs`, on `KpiScore` | `ScoreTyped`, `TimeAgesOnly`, `EffectiveAlwaysNext`, `RecordAlwaysAgrees`, `BetterAlwaysNoWorse`, `BetterRanksNoWorse` | `UniquePeriods`: a period has at most one target; `IndexNeverFalls`: the index of the period of a month never goes down; `LatestReached`: the latest reading up to a day is one of those reached, and of that very day if the day has one; `EffectiveTarget`: the target chosen is one with the least index, which exists because indexes are natural numbers; the order of two ratios is proved by cross-multiplication |

`BetterRanksNoWorse` is a theorem about the operators, without a specification: it says for all
integers what `BetterNeverReadsWorse` checks on four amounts, and `BetterAlwaysNoWorse` follows from it.

`OnlyTheJamBlocks` is what `EveryRequestEnds` rests on besides fairness: while a request is under way, no
request can go on exactly when the pool is `Jammed`, and then one of them wants a second connection, whatever
the handlers' plans are. For if none did, everyone at work would wait for a lock of another at work, and a
smallest set of that kind is a ring (`KnotHasRing`), which PostgreSQL ends. `ENABLED` is out of the prover's reach, so "can go on"
is the predicate `MayGo`, and `WhoMayGo` proves that it is the guard of `Serve`: every `Serve` step satisfies
it, and where it holds the values that `GoesOn` assigns make one.

### AutosaveProofs

| Theorem | Property | Rests on |
|---|---|---|
| `AutosaveTyped` | `TypeOK` | inductive together with the rest |
| `IdleHasSaved` | `SettledMeansSaved` | `AskedIsHeld`: the last edit of a field is held by the queue, or written with no live request left |
| `OverwritesAreSeen` | `NeverOverwritesUnseen` | `EditsAreSeen`: an edit's page showed the last outside write of its field, or that write already refuses the request by its revision |
| `QuietFieldShowsSaved` | `QuietFieldIsTrue` | `LastIsSent`, `LastRests`: once the last commit was answered, the row holds it or a text the page has yet to see |
| `RoundTripsKeepDraft` | `OwnSavesKeepDraft` | `CommitsInOrder`: the texts written, under way, failed and pending are commits in the order they were made |

All of them are conjuncts of one inductive invariant, because they need each other:

- `QueueFits` relates the parts of the queue (a running request has the queue's key and revision; between
  requests nothing is pending), `RevisionsFit` says that nobody knows a later revision than the server.
  Both are what makes an old request harmless: after a write no request in the network can write any more.
- `AnswersFit`: a key is answered for what was written under it. A replayed answer is thereby an answer
  to this request, and while a key is answered nothing else can write.
- `AskedIsHeld` needs `AnswersFit` when a request succeeds: what it asked is written, and no other
  request of the same text is left.
- `LastIsAsked` ties the field to the queue: its last commit is the last edit asked for, or still waits.
- `CommitsInOrder` gives every text on its way a place among the commits, `a <= b <= c` for the row, the
  running or failed patch and the pending one. A refetch drops the commits up to the first that has the text
  it shows, which is not behind `a`; so all places move together (`PlacesMove`). It is stated for a panel
  that is open and for behaviours in which no other writer's text arrived in between (`disturbed`),
  the condition of the property itself.

`Steps` sorts the actions into thirteen kinds, each with the exact change to the queue
(`Started`, `Holds`, `Fails`, `Ends`); every part of the invariant is then proved kind by kind.
The proof found one error of the model: the cases of `Settled` overlapped, and a `CASE` whose guards
overlap may take either branch. It is now an `IF`, in the order in which `useDraft` asks.

### What stays with TLC

- Liveness (`EveryJobSettles`, `ExpiredJobMovesOn`, `EveryRequestEnds`): the prover has no fairness
  argument and no `ENABLED`.
- That the panel's guard ends: `Autosave` states no fairness, and no run claims it.
- `hidden_participants` and `job_expired_lease` are counterexamples; there is nothing to prove.

No definition of a module with a theorem is recursive: the algorithms are functions of finite sets or folds.

## 5. Not modelled

What the project says stops at these borders:

- *Waits for locks between modules.* `JobQueue`, `NoteAi` and `Tasks` take each transaction as one
  step, so the opposite orders in which 7234, 7240, the note row and the job row are taken cannot
  deadlock in them. PostgreSQL ends such a deadlock by an error, and the request fails as a whole. What
  it cannot see is a jam of connections and locks together; `Requests` has it, with the locks of
  handlers as plans, apart from what the handlers write.
- *AI budget and execution.* `aiAdmissionUsage` counts tokens in two statements, and a crash after the
  provider answered loses an invocation. Tokens, prices and budgets have no part in `JobQueue`; provider calls are
  one choice of outcome (returns, fails for good, may be retried).
- *Scheduler.* Schedules appear as enqueues of system kinds under a key. Cron arithmetic and the roll-back
  of a pass at capacity are left out.
- *References between modules.* A note, person or committee is checked without a lock before a row
  that refers to it is written; only the participants of notes are modelled.
- *Notifications.* The feed's timestamp cursor and the unread upsert: no other component reads them.
- *Backup, restore and maintenance mode.* Files and processes outside the database; the flag refuses
  requests before their transaction.
- *Profile edits, session expiry, objectives, archiving of KPIs, reordering of lists, settings,
  committees*: revision-checked updates of the entity core, whose hard case (a check, then a write at the revision
  checked) is in `Notebook` and `Kpis`, except that account writes do not compare the revision again
  (listed as a hazard).
- *Reads*: lists, search, home, keyset pagination, audit log. They change no state.
- *The AI review in the content field*, which swaps the field's value outside `Autosave`'s draft; and the
  page's reload, in `Autosave` one step.
- *The rest of the user interface, formatting, i18n, scripts and generated code.*

The definitions map about 2 500 of some 32 600 lines. Most of the others are React components, queries for
lists, validation messages, texts and scripts, in which no order of events can go wrong; the lines that
change state and are not mapped are those named above.
