------------------------------- MODULE NoteAi -------------------------------
(***************************************************************************)
(* AI assistance for one note: src/modules/notes/ai/{service,apply}.ts,    *)
(* the publish callbacks of src/modules/notes/jobs.ts, the refinement rows *)
(* of src/modules/notes/repo.ts and the note updates that make them stale. *)
(*                                                                         *)
(* The jobs are those of the queue, of which only the promise is used:     *)
(* JobPromise is instantiated and each action that touches a job is one of *)
(* its actions.  Statements that run while the transaction holds the note  *)
(* row, or the job row of a finished job, are one action; the reads made   *)
(* outside these locks are steps of their own.                             *)
(***************************************************************************)
EXTENDS Integers

CONSTANTS
  Job,          \* job ids
  User,         \* members who use the note
  Admin,        \* those of them with role admin
  None,         \* SQL null
  MaxRevision   \* bound: the note is not changed beyond this revision

ASSUME UserAssumption == Admin \subseteq User /\ None \notin User
ASSUME RevisionAssumption == MaxRevision \in Nat /\ None \notin Nat

Capability == {"notes.refine", "notes.suggest_tags"}

ASSUME KeyAssumption == None \notin Capability

VARIABLES
  revision,   \* notes.revision
  deleted,    \* notes.deleted_at is set
  phase, key, asked, effect,  \* the jobs, as JobPromise sees them
  payload,    \* the snapshot a job was admitted with, and jobs.created_by
  review,     \* jobs.result: discarded and appliedIds
  proposal,   \* note_refinements.status by job, "none" without a row
  starting,   \* the startNoteAi transaction that holds the note row, or None
  restoring,  \* by job: the revision its restoreNoteAi transaction has read, or None
  tasks,      \* history: how often the suggested tasks of a job were created
  outdated,   \* history: jobs admitted before the latest change of the note
  restored    \* history: jobs whose proposal came back through restoreNoteAi

queueVars == <<phase, key, asked, effect>>
noteVars == <<revision, deleted>>
historyVars == <<tasks, outdated, restored>>
vars == <<noteVars, queueVars, payload, review, proposal, starting, restoring, historyVars>>

Queue == INSTANCE JobPromise WITH Key <- Capability

Snapshot == [capability: Capability, revision: Nat, by: User]
Starting == [by: User, capability: Capability, revision: Nat]

TypeOK ==
  /\ revision \in Nat /\ deleted \in BOOLEAN
  /\ phase \in [Job -> {"new", "open", "succeeded", "failed", "cancelled"}]
  /\ key \in [Job -> Capability \cup {None}]
  /\ asked \in [Job -> BOOLEAN] /\ effect \in [Job -> BOOLEAN]
  /\ payload \in [Job -> Snapshot \cup {None}]
  /\ review \in [Job -> [applied: BOOLEAN, discarded: BOOLEAN]]
  /\ proposal \in [Job -> {"none", "pending", "applied", "discarded", "stale"}]
  /\ starting \in Starting \cup {None}
  /\ restoring \in [Job -> Nat \cup {None}]
  /\ tasks \in [Job -> Nat] /\ outdated \subseteq Job /\ restored \subseteq Job

Init ==
  /\ revision = 1 /\ deleted = FALSE
  /\ Queue!Init
  /\ payload = [j \in Job |-> None]
  /\ review = [j \in Job |-> [applied |-> FALSE, discarded |-> FALSE]]
  /\ proposal = [j \in Job |-> "none"]
  /\ starting = None
  /\ restoring = [j \in Job |-> None]
  /\ tasks = [j \in Job |-> 0] /\ outdated = {} /\ restored = {}

Admitted == {j \in Job : phase[j] # "new"}

PendingJobs == {j \in Job : proposal[j] = "pending"}

-----------------------------------------------------------------------------
(* Changes of the note                                                     *)

\* staleRefinements, as the rows of another job are left after it.
Staled == [j \in Job |-> IF proposal[j] = "pending" THEN "stale" ELSE proposal[j]]

\* The revision-checked update of updateEntity; the row is free.
NextRevision ==
  /\ starting = None /\ revision < MaxRevision
  /\ revision' = revision + 1
  /\ outdated' = outdated \cup Admitted

\* patchNote, archive, bulk tag and, for a note in the trash too, manageTags.
UpdateNote ==
  /\ NextRevision /\ proposal' = Staled
  /\ UNCHANGED <<deleted, queueVars, payload, review, starting, restoring, tasks, restored>>

RemoveNote ==
  /\ ~ deleted
  /\ NextRevision /\ deleted' = TRUE /\ proposal' = Staled
  /\ UNCHANGED <<queueVars, payload, review, starting, restoring, tasks, restored>>

\* restoreEntity by operation id: a new revision, and refinements are left alone.
RestoreNote ==
  /\ deleted
  /\ NextRevision /\ deleted' = FALSE
  /\ UNCHANGED <<queueVars, payload, review, proposal, starting, restoring, tasks, restored>>

-----------------------------------------------------------------------------
(* startNoteAi and the life of the job                                     *)

\* lockNote, the checks of the note, pendingRefinement.
StartReads(u, c) ==
  /\ starting = None /\ ~ deleted
  /\ c = "notes.refine" => PendingJobs = {}
  /\ starting' = [by |-> u, capability |-> c, revision |-> revision]
  /\ UNCHANGED <<noteVars, queueVars, payload, review, proposal, restoring, historyVars>>

\* admitAi returns the active job, refuses, or meets another member's job under the key.
StartEnds ==
  /\ starting # None
  /\ starting' = None
  /\ UNCHANGED <<noteVars, queueVars, payload, review, proposal, restoring, historyVars>>

\* latestAiJob: the caller's active job of this kind; a retried job has no entity id.
HasActiveJob(u, c) ==
  \E j \in Job : phase[j] = "open" /\ key[j] = c /\ payload[j].by = u

\* admitAi enqueues under the capability's key.
StartAdmits(j) ==
  /\ starting # None
  /\ ~ HasActiveJob(starting.by, starting.capability)
  /\ Queue!Submit(j, starting.capability)
  /\ payload' = [payload EXCEPT ![j] =
       [capability |-> starting.capability, revision |-> starting.revision, by |-> starting.by]]
  /\ starting' = None
  /\ UNCHANGED <<noteVars, review, proposal, restoring, historyVars>>

\* An administrator enqueues the payload of an ended job again, without a key; its snapshot is
\* as old as the first job's.
RetryAsNew(u, i, j) ==
  /\ u \in Admin /\ phase[i] \in {"failed", "cancelled"}
  /\ Queue!Submit(j, None)
  /\ payload' = [payload EXCEPT ![j] = [payload[i] EXCEPT !.by = u]]
  /\ outdated' = IF i \in outdated THEN outdated \cup {j} ELSE outdated
  /\ UNCHANGED <<noteVars, review, proposal, starting, restoring, tasks, restored>>

CancelJob(j) ==
  /\ Queue!AskToCancel(j)
  /\ UNCHANGED <<noteVars, payload, review, proposal, starting, restoring, historyVars>>

JobEnds(j) ==
  /\ \/ Queue!GiveUp({j}, {})
     \/ Queue!GiveUp({}, {j})
  /\ UNCHANGED <<noteVars, payload, review, proposal, starting, restoring, historyVars>>

Current(j) == payload[j].revision = revision /\ ~ deleted

\* Mutant of ProposalOf: what arrives is pending, whatever happened to the note meanwhile.
ProposalAlwaysPending(j) == IF payload[j].capability = "notes.refine" THEN "pending" ELSE "none"

\* The refinement row insertRefinement writes; tag suggestions have none.
ProposalOf(j) ==
  IF payload[j].capability # "notes.refine" THEN "none"
  ELSE IF Current(j) THEN "pending" ELSE "stale"

\* note_refinements_pending_idx refuses a second pending row of the note.
IndexAllows(j, status) == status = "pending" => PendingJobs \subseteq {j}

\* publish(): the row lock on the note is taken inside the fenced transaction.  If the index
\* refuses, the transaction rolls back and the attempt fails (JobEnds).
PublishJob(j) ==
  /\ starting = None
  /\ Queue!Succeed(j)
  /\ IndexAllows(j, ProposalOf(j))
  /\ proposal' = [proposal EXCEPT ![j] = ProposalOf(j)]
  /\ UNCHANGED <<noteVars, payload, review, starting, restoring, historyVars>>

-----------------------------------------------------------------------------
(* Review                                                                  *)

\* Mutant of Reviewable: a discarded result may still be reviewed.
ReviewableDiscarded(u, j) ==
  /\ phase[j] = "succeeded" /\ restoring[j] = None
  /\ payload[j].by = u \/ u \in Admin

\* reviewJob: the job row is locked, finished, the caller's (or the caller is an
\* administrator), and not discarded.
Reviewable(u, j) ==
  /\ phase[j] = "succeeded" /\ restoring[j] = None
  /\ payload[j].by = u \/ u \in Admin
  /\ ~ review[j].discarded

\* Mutant of Applicable: neither a replay nor an older revision is noticed.
ApplicableAgain(j) == ~ deleted

\* Mutant of Applicable: the revision of the note is not compared.
ApplicableAnyRevision(j) == ~ review[j].applied /\ ~ deleted

\* A result applied before is only replayed; the note must stand at the snapshot.
Applicable(j) == ~ review[j].applied /\ Current(j)

\* applyNoteAi: tasks, note, result and refinement in one transaction.
Apply(u, j) ==
  /\ Reviewable(u, j) /\ Applicable(j)
  /\ NextRevision
  /\ tasks' = [tasks EXCEPT ![j] = @ + 1]
  /\ review' = [review EXCEPT ![j].applied = TRUE]
  /\ proposal' = [Staled EXCEPT ![j] =
       IF payload[j].capability = "notes.refine" THEN "applied" ELSE @]
  /\ UNCHANGED <<deleted, queueVars, payload, starting, restoring, restored>>

\* discardNoteAi does not lock the note.
Discard(u, j) ==
  /\ Reviewable(u, j) /\ ~ review[j].applied
  /\ review' = [review EXCEPT ![j].discarded = TRUE]
  /\ proposal' = [proposal EXCEPT ![j] =
       IF payload[j].capability = "notes.refine" THEN "discarded" ELSE @]
  /\ UNCHANGED <<noteVars, queueVars, payload, starting, restoring, historyVars>>

\* restoreNoteAi up to getNote: the job row is locked, the note row is not.
RestoreReads(u, j) ==
  /\ phase[j] = "succeeded" /\ restoring[j] = None
  /\ payload[j].by = u \/ u \in Admin
  /\ payload[j].capability = "notes.refine" /\ ~ review[j].applied /\ ~ deleted
  /\ restoring' = [restoring EXCEPT ![j] = revision]
  /\ UNCHANGED <<noteVars, queueVars, payload, review, proposal, starting, historyVars>>

RestoredStatus(j) == IF restoring[j] = payload[j].revision THEN "pending" ELSE "stale"

\* Its writes, unless the pending index refuses and the transaction rolls back.
RestoreWrites(j) ==
  /\ restoring[j] # None
  /\ restoring' = [restoring EXCEPT ![j] = None]
  /\ IF IndexAllows(j, RestoredStatus(j))
     THEN /\ review' = [review EXCEPT ![j].discarded = FALSE]
          /\ proposal' = [proposal EXCEPT ![j] = RestoredStatus(j)]
          /\ restored' = restored \cup {j}
     ELSE UNCHANGED <<review, proposal, restored>>
  /\ UNCHANGED <<noteVars, queueVars, payload, starting, tasks, outdated>>

-----------------------------------------------------------------------------
ChangeNote == UpdateNote \/ RemoveNote \/ RestoreNote

Start == StartEnds \/ \E u \in User, c \in Capability : StartReads(u, c)

JobStep(j) ==
  \/ StartAdmits(j) \/ CancelJob(j) \/ JobEnds(j) \/ PublishJob(j)
  \/ \E u \in User, i \in Job : RetryAsNew(u, i, j)

ReviewStep(j) ==
  \/ RestoreWrites(j)
  \/ \E u \in User : Apply(u, j) \/ Discard(u, j) \/ RestoreReads(u, j)

Next == ChangeNote \/ Start \/ \E j \in Job : JobStep(j) \/ ReviewStep(j)

Spec == Init /\ [][Next]_vars

-----------------------------------------------------------------------------
(* Properties                                                              *)

\* The three records of a review agree: result.appliedIds, result.discarded and the status of
\* the refinement row, through discard, undo, apply and every staling in between.
ReviewRecordsAgree ==
  \A j \in Job :
    /\ ~ (review[j].applied /\ review[j].discarded)
    /\ proposal[j] # "none" =>
         /\ proposal[j] = "applied" <=> review[j].applied
         /\ proposal[j] = "discarded" <=> review[j].discarded

\* Suggested tasks are created once for an applied job and never for another, whoever else
\* applies, discards or restores the same job at the same time (NOTES-B17).
TasksOnce == \A j \in Job : tasks[j] = IF review[j].applied THEN 1 ELSE 0

\* A suggestion is applied only to the note it was generated from: no change of the note made
\* since the snapshot is overwritten, not even one undone through the trash (NOTES-B17).
AppliedToItsSnapshot ==
  [][\A j \in Job : review'[j].applied /\ ~ review[j].applied => j \notin outdated /\ ~ deleted]_vars

\* A pending proposal can be applied as it stands: nothing changed the note since its snapshot.
\* Undo is the one way around it: it reads the note without its lock (ai/apply.ts:82), so a
\* change committed before its write leaves a stale proposal pending.
PendingIsCurrentUnlessUndone ==
  \A j \in PendingJobs \ restored : Current(j) /\ j \notin outdated
=============================================================================
