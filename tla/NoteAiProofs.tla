----------------------------- MODULE NoteAiProofs -----------------------------
(***************************************************************************)
(* What a review of note suggestions promises, for any number of jobs,     *)
(* members and revisions.                                                  *)
(*                                                                         *)
(* That a result is applied only to its own snapshot rests on the ages of  *)
(* the snapshots (SnapshotsAge), that tasks are created once on who may    *)
(* have a proposal or an open Undo at all (OnlyRefinements).               *)
(***************************************************************************)
EXTENDS NoteAi, TLAPS

\* An admitted job has a snapshot, and those from before the latest change are older than it.
SnapshotsAge ==
  /\ \A j \in Job : phase[j] # "new" => payload[j] \in Snapshot /\ payload[j].revision <= revision
  /\ \A j \in outdated : phase[j] # "new" /\ payload[j].revision < revision

\* Only a finished refinement has a row or an Undo under way, and only an unapplied one an Undo.
OnlyRefinements ==
  \A j \in Job :
    /\ proposal[j] # "none" \/ restoring[j] # None =>
         phase[j] = "succeeded" /\ payload[j].capability = "notes.refine"
    /\ restoring[j] # None => ~ review[j].applied

\* Only finished jobs are reviewed.
OnlyResults == \A j \in Job : review[j].applied \/ review[j].discarded => phase[j] = "succeeded"

\* startNoteAi holds the row of a note as it read it.
StartingIsCurrent == starting # None => starting.revision = revision

IInv ==
  /\ TypeOK /\ SnapshotsAge /\ OnlyRefinements /\ OnlyResults /\ StartingIsCurrent
  /\ ReviewRecordsAgree /\ TasksOnce /\ PendingIsCurrentUnlessUndone

LEMMA InitInv == Init => IInv
<1> SUFFICES ASSUME Init PROVE IInv
  OBVIOUS
<1> USE DEF Init, Queue!Init
<1>1. TypeOK
  BY DEF TypeOK
<1>2. SnapshotsAge /\ OnlyRefinements /\ OnlyResults /\ StartingIsCurrent
  BY DEF SnapshotsAge, OnlyRefinements, OnlyResults, StartingIsCurrent
<1>3. ReviewRecordsAgree /\ TasksOnce /\ PendingIsCurrentUnlessUndone
  BY DEF ReviewRecordsAgree, TasksOnce, PendingIsCurrentUnlessUndone, PendingJobs
<1> QED
  BY <1>1, <1>2, <1>3 DEF IInv

\* What staleRefinements leaves of the rows.
LEMMA StaledRows ==
  ASSUME TypeOK
  PROVE  /\ Staled \in [Job -> {"none", "applied", "discarded", "stale"}]
         /\ \A j \in Job : Staled[j] = IF proposal[j] = "pending" THEN "stale" ELSE proposal[j]
BY DEF TypeOK, Staled

\* A change of the note keeps the ages of the snapshots.
LEMMA NextRevisionAges ==
  ASSUME IInv, NextRevision, UNCHANGED <<phase, payload>>
  PROVE  /\ revision' \in Nat /\ outdated' \subseteq Job /\ SnapshotsAge' /\ starting = None
<1>1. revision' = revision + 1 /\ revision \in Nat /\ outdated' = outdated \cup Admitted
  BY DEF IInv, TypeOK, NextRevision
<1>2. \A j \in Job : phase[j] # "new" => payload[j].revision \in Nat /\ payload[j].revision <= revision
  BY DEF IInv, SnapshotsAge, Snapshot
<1>3. Admitted \subseteq Job /\ \A j \in Admitted : phase[j] # "new"
  BY DEF Admitted
<1>4. outdated \subseteq Job /\ \A j \in outdated : phase[j] # "new" /\ payload[j].revision < revision
  BY DEF IInv, TypeOK, SnapshotsAge
<1>5. \A j \in Job : phase'[j] # "new" => payload'[j] \in Snapshot /\ payload'[j].revision <= revision'
  BY <1>1, <1>2 DEF IInv, SnapshotsAge
<1>6. \A j \in outdated' : phase'[j] # "new" /\ payload'[j].revision < revision'
  BY <1>1, <1>2, <1>3, <1>4
<1> QED
  BY <1>1, <1>3, <1>4, <1>5, <1>6 DEF SnapshotsAge, NextRevision

LEMMA ChangeNoteStep ==
  ASSUME IInv, ChangeNote
  PROVE  IInv'
<1> USE DEF IInv
<1>1. CASE UpdateNote \/ RemoveNote
  <2>1. /\ proposal' = Staled /\ NextRevision /\ deleted' \in BOOLEAN
        /\ UNCHANGED <<queueVars, payload, review, starting, restoring, tasks, restored>>
    BY <1>1 DEF UpdateNote, RemoveNote, TypeOK
  <2>2. UNCHANGED <<phase, key, asked, effect>>
    BY <2>1 DEF queueVars
  <2>3. revision' \in Nat /\ outdated' \subseteq Job /\ SnapshotsAge' /\ starting = None
    BY <2>1, <2>2, NextRevisionAges
  <2>4. TypeOK'
    BY <2>1, <2>2, <2>3, StaledRows DEF TypeOK
  <2>5. OnlyRefinements' /\ OnlyResults' /\ StartingIsCurrent'
    BY <2>1, <2>2, <2>3, StaledRows DEF OnlyRefinements, OnlyResults, StartingIsCurrent
  <2>6. ReviewRecordsAgree' /\ TasksOnce'
    BY <2>1, StaledRows DEF ReviewRecordsAgree, TasksOnce
  <2>7. PendingIsCurrentUnlessUndone'
    BY <2>1, StaledRows DEF PendingIsCurrentUnlessUndone, PendingJobs
  <2> QED
    BY <2>3, <2>4, <2>5, <2>6, <2>7
<1>2. CASE RestoreNote
  <2>1. /\ deleted /\ deleted' = FALSE /\ NextRevision
        /\ UNCHANGED <<queueVars, payload, review, proposal, starting, restoring, tasks, restored>>
    BY <1>2 DEF RestoreNote
  <2>2. UNCHANGED <<phase, key, asked, effect>>
    BY <2>1 DEF queueVars
  <2>3. revision' \in Nat /\ outdated' \subseteq Job /\ SnapshotsAge' /\ starting = None
    BY <2>1, <2>2, NextRevisionAges
  <2>4. TypeOK'
    BY <2>1, <2>2, <2>3 DEF TypeOK
  <2>5. OnlyRefinements' /\ OnlyResults' /\ StartingIsCurrent'
    BY <2>1, <2>2, <2>3 DEF OnlyRefinements, OnlyResults, StartingIsCurrent
  <2>6. ReviewRecordsAgree' /\ TasksOnce'
    BY <2>1 DEF ReviewRecordsAgree, TasksOnce
  <2>7. PendingJobs \ restored = {}
    BY <2>1 DEF PendingIsCurrentUnlessUndone, Current
  <2>8. PendingIsCurrentUnlessUndone'
    BY <2>1, <2>7 DEF PendingIsCurrentUnlessUndone, PendingJobs
  <2> QED
    BY <2>3, <2>4, <2>5, <2>6, <2>8
<1> QED
  BY <1>1, <1>2 DEF ChangeNote

\* startNoteAi without its job: nothing but starting changes.
LEMMA StartStep ==
  ASSUME IInv, Start
  PROVE  IInv'
<1> USE DEF IInv
<1>1. /\ UNCHANGED <<noteVars, queueVars, payload, review, proposal, restoring, historyVars>>
      /\ starting' \in Starting \cup {None}
      /\ starting' # None => starting'.revision = revision
  BY DEF Start, StartEnds, StartReads, Starting, TypeOK
<1>2. /\ UNCHANGED <<revision, deleted, phase, key, asked, effect, payload, review, proposal>>
      /\ UNCHANGED <<restoring, tasks, outdated, restored>>
  BY <1>1 DEF noteVars, queueVars, historyVars
<1>3. TypeOK'
  BY <1>1, <1>2 DEF TypeOK
<1>4. SnapshotsAge' /\ OnlyRefinements' /\ OnlyResults' /\ StartingIsCurrent'
  BY <1>1, <1>2 DEF SnapshotsAge, OnlyRefinements, OnlyResults, StartingIsCurrent
<1>5. ReviewRecordsAgree' /\ TasksOnce' /\ PendingIsCurrentUnlessUndone'
  BY <1>2 DEF ReviewRecordsAgree, TasksOnce, PendingIsCurrentUnlessUndone, PendingJobs, Current
<1> QED
  BY <1>3, <1>4, <1>5

\* A new job comes with a snapshot that is not younger than the note.
LEMMA SubmitStep ==
  ASSUME IInv, NEW j \in Job, NEW k \in Capability \cup {None}, NEW p \in Snapshot,
         NEW O \in SUBSET (outdated \cup {j}), outdated \subseteq O,
         p.revision <= revision, j \in O => p.revision < revision,
         Queue!Submit(j, k), payload' = [payload EXCEPT ![j] = p], outdated' = O,
         starting' \in {starting, None},
         UNCHANGED <<revision, deleted, review, proposal, restoring, tasks, restored>>
  PROVE  IInv'
<1> USE DEF IInv
<1>1. /\ phase[j] = "new" /\ phase' = [phase EXCEPT ![j] = "open"]
      /\ key' = [key EXCEPT ![j] = k] /\ UNCHANGED <<asked, effect>>
  BY DEF Queue!Submit
<1>2. j \notin outdated /\ O \subseteq Job
  BY <1>1 DEF TypeOK, SnapshotsAge
<1>3. TypeOK'
  BY <1>1, <1>2 DEF TypeOK
<1>4. SnapshotsAge'
  <2>1. \A i \in Job : phase'[i] # "new" => payload'[i] \in Snapshot /\ payload'[i].revision <= revision
    BY <1>1 DEF TypeOK, SnapshotsAge
  <2>2. \A i \in O : phase'[i] # "new" /\ payload'[i].revision < revision
    BY <1>1, <1>2 DEF TypeOK, SnapshotsAge
  <2> QED
    BY <2>1, <2>2 DEF SnapshotsAge
<1>5. OnlyRefinements' /\ OnlyResults' /\ StartingIsCurrent'
  BY <1>1 DEF TypeOK, OnlyRefinements, OnlyResults, StartingIsCurrent
<1>6. ReviewRecordsAgree' /\ TasksOnce'
  BY DEF ReviewRecordsAgree, TasksOnce
<1>7. PendingIsCurrentUnlessUndone'
  <2>1. \A i \in PendingJobs : i # j
    BY <1>1 DEF PendingJobs, OnlyRefinements
  <2>2. \A i \in PendingJobs \ restored : payload'[i] = payload[i] /\ i \notin O
    BY <2>1 DEF TypeOK, PendingIsCurrentUnlessUndone, PendingJobs
  <2> QED
    BY <2>2 DEF PendingIsCurrentUnlessUndone, PendingJobs, Current
<1> QED
  BY <1>3, <1>4, <1>5, <1>6, <1>7

LEMMA AdmitStep ==
  ASSUME IInv, NEW j \in Job, StartAdmits(j)
  PROVE  IInv'
<1> DEFINE p == [capability |-> starting.capability, revision |-> starting.revision, by |-> starting.by]
<1>1. p \in Snapshot /\ p.revision = revision /\ starting.capability \in Capability
  BY DEF StartAdmits, IInv, TypeOK, StartingIsCurrent, Starting, Snapshot
<1>2. /\ Queue!Submit(j, starting.capability) /\ payload' = [payload EXCEPT ![j] = p]
      /\ outdated' = outdated /\ starting' = None
      /\ UNCHANGED <<revision, deleted, review, proposal, restoring, tasks, restored>>
  BY DEF StartAdmits, noteVars, historyVars
<1>3. j \notin outdated /\ p.revision <= revision
  BY <1>1, <1>2 DEF Queue!Submit, IInv, SnapshotsAge, TypeOK
<1> HIDE DEF p
<1> QED
  BY <1>1, <1>2, <1>3, SubmitStep

LEMMA RetryStep ==
  ASSUME IInv, NEW i \in Job, NEW j \in Job, NEW u \in User, RetryAsNew(u, i, j)
  PROVE  IInv'
<1> DEFINE p == [payload[i] EXCEPT !.by = u]
           O == IF i \in outdated THEN outdated \cup {j} ELSE outdated
<1>1. phase[i] \in {"failed", "cancelled"} /\ Queue!Submit(j, None)
  BY DEF RetryAsNew
<1>2. payload[i] \in Snapshot /\ payload[i].revision <= revision
  BY <1>1 DEF IInv, SnapshotsAge
<1>3. p \in Snapshot /\ p.revision = payload[i].revision
  BY <1>2 DEF Snapshot
<1>4. i \in outdated => p.revision < revision
  BY <1>3 DEF IInv, SnapshotsAge
<1>5. j \notin outdated
  BY <1>1 DEF Queue!Submit, IInv, SnapshotsAge
<1>6. /\ payload' = [payload EXCEPT ![j] = p] /\ outdated' = O /\ starting' = starting
      /\ UNCHANGED <<revision, deleted, review, proposal, restoring, tasks, restored>>
  BY DEF RetryAsNew, noteVars
<1>7. O \in SUBSET (outdated \cup {j}) /\ outdated \subseteq O /\ (j \in O => p.revision < revision)
  BY <1>4, <1>5
<1>8. p.revision <= revision
  BY <1>2, <1>3
<1> HIDE DEF p, O
<1> QED
  BY <1>1, <1>3, <1>6, <1>7, <1>8, SubmitStep

\* A step of the queue that only moves jobs of the set D to other phases.
LEMMA PhaseStep ==
  ASSUME IInv, NEW D \in SUBSET Job, NEW ph \in {"open", "failed", "cancelled"},
         \A j \in D : phase[j] = "open",
         phase' = [j \in Job |-> IF j \in D THEN ph ELSE phase[j]],
         asked' \in [Job -> BOOLEAN],
         UNCHANGED <<revision, deleted, key, effect, payload, review, proposal>>,
         UNCHANGED <<starting, restoring, tasks, outdated, restored>>
  PROVE  IInv'
<1> USE DEF IInv
<1>1. TypeOK'
  BY DEF TypeOK
<1>2. \A j \in Job : phase'[j] = "new" <=> phase[j] = "new"
  BY DEF TypeOK
<1>3. \A j \in Job : phase[j] = "succeeded" => phase'[j] = "succeeded"
  BY DEF TypeOK
<1>4. SnapshotsAge'
  BY <1>2 DEF SnapshotsAge, TypeOK
<1>5. OnlyRefinements' /\ OnlyResults' /\ StartingIsCurrent'
  BY <1>3 DEF OnlyRefinements, OnlyResults, StartingIsCurrent
<1>6. ReviewRecordsAgree' /\ TasksOnce' /\ PendingIsCurrentUnlessUndone'
  BY DEF ReviewRecordsAgree, TasksOnce, PendingIsCurrentUnlessUndone, PendingJobs, Current
<1> QED
  BY <1>1, <1>4, <1>5, <1>6

LEMMA CancelStep ==
  ASSUME IInv, NEW j \in Job, CancelJob(j)
  PROVE  IInv'
<1>1. asked' \in [Job -> BOOLEAN] /\ UNCHANGED <<key, effect>>
  BY DEF CancelJob, Queue!AskToCancel, IInv, TypeOK
<1>2. UNCHANGED <<revision, deleted, payload, review, proposal, starting, restoring, tasks, outdated, restored>>
  BY DEF CancelJob, noteVars, historyVars
<1>3. PICK D \in SUBSET {j} :
        /\ \A i \in D : phase[i] = "open"
        /\ phase' = [i \in Job |-> IF i \in D THEN "cancelled" ELSE phase[i]]
  <2>1. CASE UNCHANGED phase
    <3>1. phase' = [i \in Job |-> IF i \in {} THEN "cancelled" ELSE phase[i]]
      BY <2>1 DEF IInv, TypeOK
    <3> QED
      BY <3>1, {} \in SUBSET {j}
  <2>2. CASE phase[j] = "open" /\ phase' = [phase EXCEPT ![j] = "cancelled"]
    <3>1. phase' = [i \in Job |-> IF i \in {j} THEN "cancelled" ELSE phase[i]]
      BY <2>2 DEF IInv, TypeOK
    <3> QED
      BY <2>2, <3>1
  <2> QED
    BY <2>1, <2>2 DEF CancelJob, Queue!AskToCancel
<1>4. D \in SUBSET Job
  BY <1>3
<1> QED
  BY <1>1, <1>2, <1>3, <1>4, PhaseStep

LEMMA EndsStep ==
  ASSUME IInv, NEW j \in Job, JobEnds(j)
  PROVE  IInv'
<1>1. /\ phase[j] = "open" /\ UNCHANGED <<key, asked, effect>>
      /\ \E ph \in {"failed", "cancelled"} :
           phase' = [i \in Job |-> IF i \in {j} THEN ph ELSE phase[i]]
  BY DEF JobEnds, Queue!GiveUp
<1>2. UNCHANGED <<revision, deleted, payload, review, proposal, starting, restoring, tasks, outdated, restored>>
  BY DEF JobEnds, noteVars, historyVars
<1>3. asked' \in [Job -> BOOLEAN]
  BY <1>1 DEF IInv, TypeOK
<1> QED
  BY <1>1, <1>2, <1>3, PhaseStep

LEMMA PublishStep ==
  ASSUME IInv, NEW j \in Job, PublishJob(j)
  PROVE  IInv'
<1> USE DEF IInv
<1>1. /\ phase[j] = "open" /\ phase' = [phase EXCEPT ![j] = "succeeded"]
      /\ effect' = [effect EXCEPT ![j] = TRUE] /\ UNCHANGED <<key, asked>>
  BY DEF PublishJob, Queue!Succeed
<1>2. /\ UNCHANGED <<revision, deleted, payload, review, starting, restoring, tasks, outdated, restored>>
      /\ proposal' = [proposal EXCEPT ![j] = ProposalOf(j)]
  BY DEF PublishJob, noteVars, historyVars
<1>3. /\ ProposalOf(j) \in {"none", "pending", "stale"}
      /\ ProposalOf(j) # "none" => payload[j].capability = "notes.refine"
      /\ ProposalOf(j) = "pending" => Current(j)
  BY DEF ProposalOf
<1>4. ~ review[j].applied /\ ~ review[j].discarded /\ restoring[j] = None
  BY <1>1 DEF OnlyResults, OnlyRefinements
<1>5. TypeOK'
  BY <1>1, <1>2, <1>3 DEF TypeOK
<1>6. SnapshotsAge'
  BY <1>1, <1>2 DEF SnapshotsAge, TypeOK
<1>7. OnlyRefinements'
  BY <1>1, <1>2, <1>3, <1>4 DEF OnlyRefinements, TypeOK
<1>8. OnlyResults' /\ StartingIsCurrent' /\ TasksOnce'
  BY <1>1, <1>2 DEF OnlyResults, StartingIsCurrent, TasksOnce, TypeOK
<1>9. ReviewRecordsAgree'
  BY <1>2, <1>3, <1>4 DEF ReviewRecordsAgree, TypeOK
<1>10. PendingIsCurrentUnlessUndone'
  <2>1. Current(j) => j \notin outdated
    BY DEF Current, SnapshotsAge, TypeOK
  <2> QED
    BY <2>1, <1>2, <1>3 DEF PendingIsCurrentUnlessUndone, PendingJobs, TypeOK, Current
<1> QED
  BY <1>5, <1>6, <1>7, <1>8, <1>9, <1>10

LEMMA ApplyStep ==
  ASSUME IInv, NEW j \in Job, NEW u \in User, Apply(u, j)
  PROVE  IInv'
<1> USE DEF IInv
<1>1. /\ phase[j] = "succeeded" /\ restoring[j] = None
      /\ ~ review[j].discarded /\ ~ review[j].applied
  BY DEF Apply, Reviewable, Applicable
<1>2. /\ NextRevision
      /\ UNCHANGED <<deleted, phase, key, asked, effect, payload, starting, restoring, restored>>
      /\ tasks' = [tasks EXCEPT ![j] = @ + 1]
      /\ review' = [review EXCEPT ![j].applied = TRUE]
      /\ proposal' = [Staled EXCEPT ![j] =
           IF payload[j].capability = "notes.refine" THEN "applied" ELSE @]
  BY DEF Apply, queueVars
<1>3. revision' \in Nat /\ outdated' \subseteq Job /\ SnapshotsAge' /\ starting = None
  BY <1>2, NextRevisionAges
<1>4. /\ \A i \in Job \ {j} : review'[i] = review[i] /\ tasks'[i] = tasks[i] /\ proposal'[i] = Staled[i]
      /\ review'[j] = [applied |-> TRUE, discarded |-> FALSE]
      /\ tasks'[j] = 1
  <2>1. review \in [Job -> [applied: BOOLEAN, discarded: BOOLEAN]]
    BY DEF TypeOK
  <2>2. /\ review'[j] = [applied |-> TRUE, discarded |-> FALSE]
        /\ \A i \in Job \ {j} : review'[i] = review[i]
    BY <1>1, <1>2, <2>1
  <2>3. tasks[j] = 0
    BY <1>1 DEF TasksOnce
  <2>4. tasks'[j] = 1 /\ \A i \in Job \ {j} : tasks'[i] = tasks[i]
    BY <1>2, <2>3 DEF TypeOK
  <2>5. \A i \in Job \ {j} : proposal'[i] = Staled[i]
    BY <1>2, StaledRows
  <2> QED
    BY <2>2, <2>4, <2>5
<1>5. proposal'[j] = IF payload[j].capability = "notes.refine" THEN "applied" ELSE Staled[j]
  BY <1>2, StaledRows
<1>6. payload[j].capability # "notes.refine" => proposal[j] = "none" /\ Staled[j] = "none"
  BY StaledRows DEF OnlyRefinements
<1>7. TypeOK'
  <2>1. review' \in [Job -> [applied: BOOLEAN, discarded: BOOLEAN]] /\ tasks' \in [Job -> Nat]
    <3>1. review \in [Job -> [applied: BOOLEAN, discarded: BOOLEAN]] /\ tasks \in [Job -> Nat]
      BY DEF TypeOK
    <3>2. review' \in [Job -> [applied: BOOLEAN, discarded: BOOLEAN]]
      BY <1>2, <3>1
    <3>3. tasks' \in [Job -> Nat]
      BY <1>2, <3>1
    <3> QED
      BY <3>2, <3>3
  <2>2. proposal' \in [Job -> {"none", "pending", "applied", "discarded", "stale"}]
    BY <1>2, StaledRows
  <2> QED
    BY <2>1, <2>2, <1>2, <1>3 DEF TypeOK
<1>8. OnlyRefinements' /\ OnlyResults' /\ StartingIsCurrent'
  BY <1>1, <1>2, <1>3, <1>4, <1>5, <1>6, StaledRows DEF OnlyRefinements, OnlyResults, StartingIsCurrent
<1>9. ReviewRecordsAgree'
  BY <1>4, <1>5, <1>6, StaledRows DEF ReviewRecordsAgree
<1>10. TasksOnce'
  BY <1>4 DEF TasksOnce
<1>11. PendingIsCurrentUnlessUndone'
  BY <1>4, <1>5, <1>6, StaledRows DEF PendingIsCurrentUnlessUndone, PendingJobs
<1> QED
  BY <1>3, <1>7, <1>8, <1>9, <1>10, <1>11

LEMMA DiscardStep ==
  ASSUME IInv, NEW j \in Job, NEW u \in User, Discard(u, j)
  PROVE  IInv'
<1> USE DEF IInv
<1>1. phase[j] = "succeeded" /\ ~ review[j].applied
  BY DEF Discard, Reviewable
<1>2. /\ UNCHANGED <<revision, deleted, phase, key, asked, effect, payload, starting, restoring>>
      /\ UNCHANGED <<tasks, outdated, restored>>
      /\ review' = [review EXCEPT ![j].discarded = TRUE]
      /\ proposal' = [proposal EXCEPT ![j] =
           IF payload[j].capability = "notes.refine" THEN "discarded" ELSE @]
  BY DEF Discard, noteVars, queueVars, historyVars
<1>3. TypeOK'
  BY <1>2 DEF TypeOK
<1>4. SnapshotsAge' /\ StartingIsCurrent'
  BY <1>2 DEF SnapshotsAge, StartingIsCurrent
<1>5. payload[j].capability # "notes.refine" => proposal[j] = "none"
  BY DEF OnlyRefinements
<1>6. /\ \A i \in Job \ {j} : review'[i] = review[i] /\ proposal'[i] = proposal[i]
      /\ review'[j] = [applied |-> FALSE, discarded |-> TRUE]
      /\ proposal'[j] = IF payload[j].capability = "notes.refine" THEN "discarded" ELSE "none"
  BY <1>1, <1>2, <1>5 DEF TypeOK
<1>7. OnlyRefinements' /\ OnlyResults'
  BY <1>1, <1>2, <1>6 DEF OnlyRefinements, OnlyResults
<1>8. ReviewRecordsAgree' /\ TasksOnce'
  BY <1>1, <1>2, <1>6 DEF ReviewRecordsAgree, TasksOnce
<1>9. PendingIsCurrentUnlessUndone'
  BY <1>2, <1>6 DEF PendingIsCurrentUnlessUndone, PendingJobs, Current
<1> QED
  BY <1>3, <1>4, <1>7, <1>8, <1>9

LEMMA RestoreReadsStep ==
  ASSUME IInv, NEW j \in Job, NEW u \in User, RestoreReads(u, j)
  PROVE  IInv'
<1> USE DEF IInv
<1>1. /\ phase[j] = "succeeded" /\ payload[j].capability = "notes.refine" /\ ~ review[j].applied
      /\ restoring' = [restoring EXCEPT ![j] = revision]
      /\ UNCHANGED <<revision, deleted, phase, key, asked, effect, payload, review, proposal, starting>>
      /\ UNCHANGED <<tasks, outdated, restored>>
  BY DEF RestoreReads, noteVars, queueVars, historyVars
<1>2. TypeOK'
  BY <1>1 DEF TypeOK
<1>3. SnapshotsAge' /\ OnlyResults' /\ StartingIsCurrent'
  BY <1>1 DEF SnapshotsAge, OnlyResults, StartingIsCurrent
<1>4. OnlyRefinements'
  BY <1>1 DEF OnlyRefinements, TypeOK
<1>5. ReviewRecordsAgree' /\ TasksOnce' /\ PendingIsCurrentUnlessUndone'
  BY <1>1 DEF ReviewRecordsAgree, TasksOnce, PendingIsCurrentUnlessUndone, PendingJobs, Current
<1> QED
  BY <1>2, <1>3, <1>4, <1>5

LEMMA RestoreWritesStep ==
  ASSUME IInv, NEW j \in Job, RestoreWrites(j)
  PROVE  IInv'
<1> USE DEF IInv
<1>1. /\ restoring[j] # None /\ restoring' = [restoring EXCEPT ![j] = None]
      /\ UNCHANGED <<revision, deleted, phase, key, asked, effect, payload, starting, tasks, outdated>>
  BY DEF RestoreWrites, noteVars, queueVars
<1>2. /\ phase[j] = "succeeded" /\ payload[j].capability = "notes.refine" /\ ~ review[j].applied
  BY <1>1 DEF OnlyRefinements
<1>3. SnapshotsAge' /\ StartingIsCurrent'
  BY <1>1 DEF SnapshotsAge, StartingIsCurrent
<1>4. CASE IndexAllows(j, RestoredStatus(j))
  <2>1. /\ review' = [review EXCEPT ![j].discarded = FALSE]
        /\ proposal' = [proposal EXCEPT ![j] = RestoredStatus(j)]
        /\ restored' = restored \cup {j}
    BY <1>4 DEF RestoreWrites
  <2>2. RestoredStatus(j) \in {"pending", "stale"}
    BY DEF RestoredStatus
  <2>3. /\ \A i \in Job \ {j} : review'[i] = review[i] /\ proposal'[i] = proposal[i]
        /\ review'[j] = [applied |-> FALSE, discarded |-> FALSE]
        /\ proposal'[j] \in {"pending", "stale"}
    BY <1>2, <2>1, <2>2 DEF TypeOK
  <2>4. TypeOK'
    BY <1>1, <2>1, <2>2 DEF TypeOK
  <2>5. OnlyRefinements' /\ OnlyResults'
    BY <1>1, <1>2, <2>3 DEF OnlyRefinements, OnlyResults, TypeOK
  <2>6. ReviewRecordsAgree' /\ TasksOnce'
    BY <1>1, <1>2, <2>3 DEF ReviewRecordsAgree, TasksOnce
  <2>7. PendingIsCurrentUnlessUndone'
    BY <1>1, <2>1, <2>3 DEF PendingIsCurrentUnlessUndone, PendingJobs, Current
  <2> QED
    BY <1>3, <2>4, <2>5, <2>6, <2>7
<1>5. CASE ~ IndexAllows(j, RestoredStatus(j))
  <2>1. UNCHANGED <<review, proposal, restored>>
    BY <1>5 DEF RestoreWrites
  <2>2. TypeOK'
    BY <1>1, <2>1 DEF TypeOK
  <2>3. OnlyRefinements' /\ OnlyResults'
    BY <1>1, <2>1 DEF OnlyRefinements, OnlyResults, TypeOK
  <2>4. ReviewRecordsAgree' /\ TasksOnce' /\ PendingIsCurrentUnlessUndone'
    BY <1>1, <2>1
    DEF ReviewRecordsAgree, TasksOnce, PendingIsCurrentUnlessUndone, PendingJobs, Current
  <2> QED
    BY <1>3, <2>2, <2>3, <2>4
<1> QED
  BY <1>4, <1>5

LEMMA StutterStep == IInv /\ UNCHANGED vars => IInv'
BY DEF IInv, vars, noteVars, queueVars, historyVars, TypeOK, SnapshotsAge, OnlyRefinements,
       OnlyResults, StartingIsCurrent, ReviewRecordsAgree, TasksOnce,
       PendingIsCurrentUnlessUndone, PendingJobs, Current

LEMMA NextInv == IInv /\ [Next]_vars => IInv'
<1> SUFFICES ASSUME IInv, [Next]_vars PROVE IInv'
  OBVIOUS
<1>1. CASE ChangeNote
  BY <1>1, ChangeNoteStep
<1>2. CASE Start
  BY <1>2, StartStep
<1>3. ASSUME NEW j \in Job, JobStep(j) PROVE IInv'
  BY <1>3, AdmitStep, RetryStep, CancelStep, EndsStep, PublishStep DEF JobStep
<1>4. ASSUME NEW j \in Job, ReviewStep(j) PROVE IInv'
  BY <1>4, ApplyStep, DiscardStep, RestoreReadsStep, RestoreWritesStep DEF ReviewStep
<1>5. CASE UNCHANGED vars
  BY <1>5, StutterStep
<1> QED
  BY <1>1, <1>2, <1>3, <1>4, <1>5 DEF Next

LEMMA InvariantHolds == Spec => []IInv
BY InitInv, NextInv, PTL DEF Spec

\* The records, snapshots and reviews keep their types in every interleaving.
THEOREM NoteAiTyped == Spec => []TypeOK
<1>1. IInv => TypeOK
  BY DEF IInv
<1> QED
  BY <1>1, InvariantHolds, PTL

\* The job's result and its refinement row tell the same story of a review (ai/apply.ts writes
\* them together, staleRefinements touches the row alone), however many reviews interleave.
THEOREM ReviewsAgree == Spec => []ReviewRecordsAgree
<1>1. IInv => ReviewRecordsAgree
  BY DEF IInv
<1> QED
  BY <1>1, InvariantHolds, PTL

\* applyNoteAi creates the suggested tasks of a job once, or not at all (NOTES-B17).
THEOREM TasksCreatedOnce == Spec => []TasksOnce
<1>1. IInv => TasksOnce
  BY DEF IInv
<1> QED
  BY <1>1, InvariantHolds, PTL

\* The proposal on offer fits the note in front of the reader, unless an Undo brought it back.
THEOREM PendingStaysCurrent == Spec => []PendingIsCurrentUnlessUndone
<1>1. IInv => PendingIsCurrentUnlessUndone
  BY DEF IInv
<1> QED
  BY <1>1, InvariantHolds, PTL

\* Only applyNoteAi sets a review to applied, and it compares the snapshot with the note.
LEMMA AppliedStep ==
  ASSUME IInv, [Next]_vars, NEW j \in Job, review'[j].applied, ~ review[j].applied
  PROVE  j \notin outdated /\ ~ deleted
<1> USE DEF IInv
<1>1. review' # review
  OBVIOUS
<1>2. PICK i \in Job : ReviewStep(i)
  BY <1>1 DEF Next, vars, ChangeNote, UpdateNote, RemoveNote, RestoreNote, Start, StartEnds,
     StartReads, JobStep, StartAdmits, CancelJob, JobEnds, PublishJob, RetryAsNew
<1>3. ASSUME NEW u \in User, Apply(u, i) PROVE j = i /\ Current(j)
  BY <1>3 DEF Apply, Applicable, TypeOK
<1>4. ASSUME NEW u \in User, Discard(u, i) PROVE FALSE
  BY <1>4 DEF Discard, TypeOK
<1>5. ASSUME NEW u \in User, RestoreReads(u, i) PROVE FALSE
  BY <1>1, <1>5 DEF RestoreReads
<1>6. ASSUME RestoreWrites(i) PROVE FALSE
  BY <1>6 DEF RestoreWrites, TypeOK
<1>7. Current(j)
  BY <1>2, <1>3, <1>4, <1>5, <1>6 DEF ReviewStep
<1> QED
  BY <1>7 DEF Current, SnapshotsAge, TypeOK

\* Nobody's change of the note is overwritten by a suggestion made before it (NOTES-B17).
THEOREM AppliesOwnSnapshot == Spec => AppliedToItsSnapshot
<1>1. IInv /\ [Next]_vars =>
        [\A j \in Job : review'[j].applied /\ ~ review[j].applied => j \notin outdated /\ ~ deleted]_vars
  BY AppliedStep
<1> QED
  BY <1>1, InvariantHolds, PTL DEF Spec, AppliedToItsSnapshot
=============================================================================
