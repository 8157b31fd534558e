----------------------------- MODULE JobPromise -----------------------------
(***************************************************************************)
(* What the job queue promises its producers, whatever happens to the      *)
(* processes that execute it (ADR 0010): a submitted job ends in one of    *)
(* three ways; its effect happens once if it succeeded and not at all      *)
(* otherwise; a key names at most one job in progress; a job whose         *)
(* cancellation was asked for never succeeds.                              *)
(***************************************************************************)
CONSTANTS Job, Key, None

VARIABLES
  phase,    \* "new", "open", or how the job ended
  key,      \* the deduplication key it was submitted under
  asked,    \* cancellation was requested
  effect    \* its effect is in the database

vars == <<phase, key, asked, effect>>

Init ==
  /\ phase = [j \in Job |-> "new"]
  /\ key = [j \in Job |-> None]
  /\ asked = [j \in Job |-> FALSE]
  /\ effect = [j \in Job |-> FALSE]

Submit(j, k) ==
  /\ phase[j] = "new"
  /\ k # None => ~ \E i \in Job : phase[i] = "open" /\ key[i] = k
  /\ phase' = [phase EXCEPT ![j] = "open"]
  /\ key' = [key EXCEPT ![j] = k]
  /\ UNCHANGED <<asked, effect>>

\* A queued AI job ends with the request, any other job some time after it.
AskToCancel(j) ==
  /\ phase[j] # "new"
  /\ asked' = [asked EXCEPT ![j] = TRUE]
  /\ \/ UNCHANGED phase
     \/ phase[j] = "open" /\ phase' = [phase EXCEPT ![j] = "cancelled"]
  /\ UNCHANGED <<key, effect>>

Succeed(j) ==
  /\ phase[j] = "open" /\ ~ asked[j]
  /\ phase' = [phase EXCEPT ![j] = "succeeded"]
  /\ effect' = [effect EXCEPT ![j] = TRUE]
  /\ UNCHANGED <<key, asked>>

\* One sweep may end several jobs at once: cancelled only if it was asked for.
GiveUp(S, T) ==
  /\ S \cap T = {}
  /\ \A j \in S \cup T : phase[j] = "open"
  /\ \A j \in T : asked[j]
  /\ phase' = [j \in Job |-> IF j \in S THEN "failed" ELSE IF j \in T THEN "cancelled"
                             ELSE phase[j]]
  /\ UNCHANGED <<key, asked, effect>>

Next ==
  \/ \E j \in Job, k \in Key \cup {None} : Submit(j, k)
  \/ \E j \in Job : AskToCancel(j) \/ Succeed(j)
  \/ \E S, T \in SUBSET Job : GiveUp(S, T)

Spec == Init /\ [][Next]_vars
=============================================================================
