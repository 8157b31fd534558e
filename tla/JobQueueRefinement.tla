------------------------- MODULE JobQueueRefinement -------------------------
(***************************************************************************)
(* The job queue implements the promise of JobPromise: queued and running  *)
(* are one open phase, and attempts, leases and runners are hidden.        *)
(***************************************************************************)
EXTENDS JobQueue

PhaseOf(status) ==
  IF status = "absent" THEN "new" ELSE IF status \in Active THEN "open" ELSE status

Promise == INSTANCE JobPromise WITH
  phase  <- [j \in Job |-> PhaseOf(jobs[j].status)],
  key    <- [j \in Job |-> jobs[j].key],
  asked  <- [j \in Job |-> jobs[j].cancel],
  effect <- [j \in Job |-> published[j] > 0]

\* Every behaviour of the queue is one the promise allows.
ImplementsPromise == Promise!Spec
=============================================================================
